---- MODULE Spec2Model ----
(***************************************************************************)
(* Broker RPC client of KafkaSaur (src/broker/index.ts): the connect path  *)
(* under the connect lock, isConnected / shouldReauthenticate, version     *)
(* negotiation, the request lookup and the internal send path, driven by   *)
(* concurrent callers on the cooperative (single-threaded, await-          *)
(* suspending) scheduler.  Each action is one run-to-suspension segment of *)
(* an async method: from one await to the next.                            *)
(***************************************************************************)
EXTENDS Integers, Sequences, FiniteSets, TLC

(* ------------------------------ bounds -------------------------------- *)
\* number of concurrent callers (async tasks) using the broker
NumProcs == 2
\* total number of public calls (connect / disconnect / metadata) issued
MaxCalls == 2
\* the monotonic clock runs from 0 to MaxTime milliseconds
MaxTime == 1
\* last millisecond of the clock when shouldReauthenticate is called directly
MaxClock == 1003
\* topics in the argument of fetch() or in a ListOffsets response,
\* partitions per topic, partitions in all
MaxTopics == 2
MaxPartitions == 2
MaxPairs == 4

Procs == 1..NumProcs


(* ------------------------- values and constants ----------------------- *)
\* null for authenticatedAt (line 67, 99, 135)
NullTime == -1
\* versions = null (line 57, 62)
NullVersions == [isNull |-> TRUE, table |-> {}]
\* API keys used by the connect path and by the RPC methods
MetadataKey == 3
SaslAuthenticateKey == 36
FetchKey == 1
JoinGroupKey == 11
\* versions implemented by the client per request family (requests.X.versions)
MetadataVersions == {0, 1, 2}
SaslAuthenticateVersions == {0, 1}
ApiVersionsVersions == {0, 1, 2, 3}
FetchVersions == 0..11
JoinGroupVersions == 0..5

\* tables a server may advertise: apiKey -> {minVersion, maxVersion}
TableFull == {[apiKey |-> MetadataKey, minVersion |-> 0, maxVersion |-> 1],
              [apiKey |-> SaslAuthenticateKey, minVersion |-> 0, maxVersion |-> 1],
              [apiKey |-> FetchKey, minVersion |-> 0, maxVersion |-> 9],
              [apiKey |-> JoinGroupKey, minVersion |-> 0, maxVersion |-> 5]}
TableNoSaslAuthenticate == {[apiKey |-> MetadataKey, minVersion |-> 1, maxVersion |-> 5]}
TableNoMetadata == {[apiKey |-> MetadataKey, minVersion |-> 7, maxVersion |-> 9],
                    [apiKey |-> SaslAuthenticateKey, minVersion |-> 0, maxVersion |-> 0]}
ServerTables == {TableFull, TableNoSaslAuthenticate, TableNoMetadata}

\* session lifetimes (ms) a SASL exchange may advertise; 0 = no expiry
SessionLifetimes == {0, 1, 2}
\* reauthenticationThreshold values (ms) the constructor may be given
Thresholds == {1}
\* session lifetimes, thresholds and authentication instants for direct
\* calls of shouldReauthenticate
ReauthLifetimes == {0, 1, 3, 1002}
ReauthThresholds == {0, 1, 2}
ReauthInstants == {0, 2}

VARIABLES
  \* Broker fields (lines 29-42)
  versions, authenticatedAt, sessionLifetime, supportAuthenticationProtocol,
  lookupRequest, reauthenticationThreshold,
  \* connection fields read by the broker (line 84)
  connected, sasl,
  \* the connect lock: flag and FIFO of waiting acquirers
  locked, waiting,
  \* monotonic clock (process.hrtime), ms
  now,
  \* per caller: position, candidate index inside apiVersions(), last result
  pc, cand, result,
  \* history: calls issued, calls to connection.connect, apiVersions() runs
  \* started by connect, SASL exchanges started, user requests handed to
  \* connection.send, connect() calls returned, lookups built (line 104)
  calls, tcpConnects, negotiations, saslExchanges, userSends, connectReturns,
  lookupBuilds,
  \* calls to connection.disconnect observed on the connection
  disconnects,
  \* per caller, inside apiVersions(): the ApiVersions versions handed to
  \* SEND_REQUEST so far in this run of the loop, and the outcomes received
  sent, replies,
  \* per caller: version of the request built by lookupRequest in metadata()
  requestVersion,
  \* last value returned by a direct call of shouldReauthenticate
  reauthResult,
  \* number of public calls the callers issue in this run
  budget,
  \* the argument of a fetch() call and the request it hands to SEND_REQUEST
  fetchArgs, fetchRequest,
  \* the decoded ListOffsets response and the value listOffsets() returns
  listOffsetsResponse, listOffsetsResult,
  \* per caller, inside joinGroup(): the requests handed to SEND_REQUEST so
  \* far in this call, and the outcomes received
  joinRequests, joinReplies

brokerFields == <<versions, authenticatedAt, sessionLifetime,
                  supportAuthenticationProtocol, lookupRequest>>
rpcVars == <<fetchArgs, fetchRequest, listOffsetsResponse, listOffsetsResult,
             joinRequests, joinReplies>>
history == <<calls, tcpConnects, negotiations, saslExchanges, userSends,
             connectReturns, lookupBuilds>>
vars == <<versions, authenticatedAt, sessionLifetime, supportAuthenticationProtocol,
          lookupRequest, reauthenticationThreshold, connected, sasl, locked,
          waiting, now, pc, cand, result, calls, tcpConnects, negotiations,
          saslExchanges, userSends, connectReturns, lookupBuilds, disconnects,
          sent, replies, requestVersion, reauthResult, budget, rpcVars>>

(* ----------------------------- pure helpers --------------------------- *)
\* mutant: the sentinel hands out a request factory instead of throwing
notInitializedLookupUsable == [initialized |-> TRUE, table |-> TableFull]

\* const notInitializedLookup = () => { throw new Error('Broker not connected') }
notInitializedLookup == [initialized |-> FALSE, table |-> {}]

\* lookup(versions): the function (apiKey, family) -> RequestFactory built
\* from the negotiated table
lookup(v) == [initialized |-> TRUE, table |-> v.table]

\* versions of `family` inside the advertised range of apiKey
UsableVersions(l, apiKey, family) ==
  {V \in family : \E e \in l.table :
      e.apiKey = apiKey /\ e.minVersion <= V /\ V <= e.maxVersion}

\* no request was built
NoVersion == -1

\* the version lookupRequest(apiKey, family) selects: the highest version the
\* family implements inside the advertised range
SelectedVersion(l, apiKey, family) ==
  IF UsableVersions(l, apiKey, family) = {} THEN NoVersion
  ELSE CHOOSE V \in UsableVersions(l, apiKey, family) :
          \A W \in UsableVersions(l, apiKey, family) : W <= V

\* outcome of calling lookupRequest(apiKey, family): the chosen version, or
\* the error it throws
LookupResult(l, apiKey, family) ==
  IF ~l.initialized THEN "BrokerNotConnected"
  ELSE IF UsableVersions(l, apiKey, family) = {} THEN "UNSUPPORTED_VERSION"
  ELSE "ok"

\* mutant: only the nanosecond remainder of the elapsed time is used
hrtimeNanosOnly(since) == [seconds |-> 0,
                           nanos |-> ((now - since) % 1000) * 1000000]

\* process.hrtime(this.authenticatedAt): [seconds, nanoseconds] since then
hrtime(since) == [seconds |-> (now - since) \div 1000,
                  nanos |-> ((now - since) % 1000) * 1000000]

\* mutant: the comparison with sessionLifetime is strict
shouldReauthenticateStrict ==
  IF sessionLifetime = 0 THEN FALSE
  ELSE IF authenticatedAt = NullTime THEN TRUE
  ELSE LET millisSince == hrtime(authenticatedAt).seconds * 1000
                          + (hrtime(authenticatedAt).nanos \div 1000000)
           reauthenticateAt == millisSince + reauthenticationThreshold
       IN reauthenticateAt > sessionLifetime

\* mutant: the threshold is not added to the elapsed time
shouldReauthenticateIgnoresThreshold ==
  IF sessionLifetime = 0 THEN FALSE
  ELSE IF authenticatedAt = NullTime THEN TRUE
  ELSE LET millisSince == hrtime(authenticatedAt).seconds * 1000
                          + (hrtime(authenticatedAt).nanos \div 1000000)
       IN millisSince >= sessionLifetime

\* Broker[PRIVATE.SHOULD_REAUTHENTICATE]
shouldReauthenticate ==
  IF sessionLifetime = 0 THEN FALSE
  ELSE IF authenticatedAt = NullTime THEN TRUE
  ELSE LET millisSince == hrtime(authenticatedAt).seconds * 1000
                          + (hrtime(authenticatedAt).nanos \div 1000000)
           reauthenticateAt == millisSince + reauthenticationThreshold
       IN reauthenticateAt >= sessionLifetime

\* mutant: isConnected() without the re-authentication check
isConnectedNoReauth ==
  IF sasl THEN connected /\ authenticatedAt # NullTime ELSE connected

\* Broker.isConnected
isConnected ==
  LET isAuthenticated == authenticatedAt # NullTime /\ ~shouldReauthenticate
  IN IF sasl THEN connected /\ isAuthenticated ELSE connected

\* String(n): the decimal digits of n, as Array.prototype.sort compares them
RECURSIVE DecimalString(_)
DecimalString(n) == IF n < 10 THEN <<n>> ELSE DecimalString(n \div 10) \o <<n % 10>>

\* the default comparison of sort(): by string, code unit by code unit
StringLess(a, b) ==
  \E i \in 1..(Len(a) + 1) :
     /\ \A j \in 1..(i - 1) : j <= Len(b) /\ a[j] = b[j]
     /\ IF i > Len(a) THEN Len(b) >= i
        ELSE i <= Len(b) /\ a[i] < b[i]

\* requests.ApiVersions.versions.map(Number).sort().reverse() (lines 144-147)
RECURSIVE SortReverse(_)
SortReverse(S) ==
  IF S = {} THEN <<>>
  ELSE LET m == CHOOSE x \in S :
                  \A y \in S \ {x} : StringLess(DecimalString(y), DecimalString(x))
       IN <<m>> \o SortReverse(S \ {m})

\* mutant: the sorted list is not reversed
availableVersionsNotReversed ==
  [i \in 1..Cardinality(ApiVersionsVersions) |->
     SortReverse(ApiVersionsVersions)[Cardinality(ApiVersionsVersions) + 1 - i]]

availableVersions == SortReverse(ApiVersionsVersions)

\* callers are interchangeable: caller p issues its first call only after
\* caller p-1 has issued one
MayCall(p) ==
  /\ pc[p] = "idle"
  /\ calls < budget
  /\ IF p = 1 THEN TRUE ELSE result[p - 1] # "none"

(* ------------------------------ the lock ------------------------------ *)
\* lock.release() called by p in connect()'s finally (line 127), followed by
\* the await: the flag is cleared and the first waiter, if any, acquires.
\* release() takes no argument: the lock cannot tell who calls it.
ReleaseLock(p, res, queue) ==
  /\ IF queue = <<>>
     THEN /\ locked' = FALSE
          /\ waiting' = queue
          /\ pc' = [pc EXCEPT ![p] = "releasing"]
     ELSE /\ locked' = TRUE
          /\ waiting' = Tail(queue)
          /\ pc' = [pc EXCEPT ![p] = "releasing", ![Head(queue)] = "acquired"]
  /\ result' = [result EXCEPT ![p] = res]

(* ----------------------------- disconnect() --------------------------- *)
\* mutant: the transport is closed without clearing authenticatedAt
DisconnectEffectKeepsAuth ==
  /\ authenticatedAt' = authenticatedAt
  /\ connected' = FALSE
  /\ disconnects' = disconnects + 1

\* the body of disconnect() up to its await (lines 135-136): authenticatedAt
\* is cleared and connection.disconnect() is called, which marks the
\* transport as not connected at once
DisconnectEffect ==
  /\ authenticatedAt' = NullTime
  /\ connected' = FALSE
  /\ disconnects' = disconnects + 1

(* ----------------------------- SEND_REQUEST --------------------------- *)
\* mutant: SEND_REQUEST disconnects on every error
ClosesConnectionAnyError(outcome) == outcome # "ok"

\* if (e.name === 'KafkaJSConnectionClosedError') (line 830)
ClosesConnection(outcome) == outcome = "ConnectionClosed"

\* the error SEND_REQUEST re-raises for a failed user request
SendErrorName(outcome) ==
  IF outcome = "ConnectionClosed" THEN "ConnectionClosed" ELSE "SendError"

(* ------------------------------ connect() ----------------------------- *)
\* mutant: connect() enters without waiting for the lock
CallConnectNoLock(p) ==
  /\ MayCall(p)
  /\ calls' = calls + 1
  /\ result' = [result EXCEPT ![p] = "pending"]
  /\ locked' = TRUE
  /\ waiting' = waiting
  /\ pc' = [pc EXCEPT ![p] = "acquired"]
  /\ UNCHANGED <<brokerFields, reauthenticationThreshold, connected, sasl, now, cand, sent, replies,
                 tcpConnects, negotiations, saslExchanges, userSends,
                 connectReturns, lookupBuilds>>
  /\ UNCHANGED <<disconnects, requestVersion, reauthResult, budget, rpcVars>>

\* mutant: authenticatedAt is cleared before the lock is acquired
CallConnectClearsFirst(p) ==
  /\ MayCall(p)
  /\ calls' = calls + 1
  /\ result' = [result EXCEPT ![p] = "pending"]
  /\ authenticatedAt' = NullTime
  /\ IF ~locked
     THEN /\ locked' = TRUE
          /\ waiting' = waiting
          /\ pc' = [pc EXCEPT ![p] = "acquired"]
     ELSE /\ locked' = locked
          /\ waiting' = Append(waiting, p)
          /\ pc' = [pc EXCEPT ![p] = "waiting"]
  /\ UNCHANGED <<versions, sessionLifetime, supportAuthenticationProtocol,
                 lookupRequest, reauthenticationThreshold, connected, sasl, now,
                 cand, sent, replies, tcpConnects, negotiations, saslExchanges,
                 userSends, connectReturns, lookupBuilds>>
  /\ UNCHANGED <<disconnects, requestVersion, reauthResult, budget, rpcVars>>

\* connect() is called: lock.acquire() either takes the free lock or queues
CallConnect(p) ==
  /\ MayCall(p)
  /\ calls' = calls + 1
  /\ result' = [result EXCEPT ![p] = "pending"]
  /\ IF ~locked
     THEN /\ locked' = TRUE
          /\ waiting' = waiting
          /\ pc' = [pc EXCEPT ![p] = "acquired"]
     ELSE /\ locked' = locked
          /\ waiting' = Append(waiting, p)
          /\ pc' = [pc EXCEPT ![p] = "waiting"]
  /\ UNCHANGED <<brokerFields, reauthenticationThreshold, connected, sasl, now, cand, sent, replies,
                 tcpConnects, negotiations, saslExchanges, userSends,
                 connectReturns, lookupBuilds>>
  /\ UNCHANGED <<disconnects, requestVersion, reauthResult, budget, rpcVars>>

\* mutant: the timeout takes the caller out of the queue but its acquire()
\* never settles
LockTimeoutNeverSettles(p) ==
  /\ pc[p] = "waiting"
  /\ \E i \in 1..Len(waiting) : waiting[i] = p
  /\ waiting' = SelectSeq(waiting, LAMBDA q : q # p)
  /\ UNCHANGED <<locked, pc, result>>
  /\ UNCHANGED <<brokerFields, reauthenticationThreshold, connected, sasl, now, cand, sent, replies,
                 history>>
  /\ UNCHANGED <<disconnects, requestVersion, reauthResult, budget, rpcVars>>

\* mutant: the rejected acquire() is swallowed and connect() carries on
LockTimeoutThenConnect(p) ==
  /\ pc[p] = "waiting"
  /\ waiting' = SelectSeq(waiting, LAMBDA q : q # p)
  /\ authenticatedAt' = NullTime
  /\ tcpConnects' = tcpConnects + 1
  /\ pc' = [pc EXCEPT ![p] = "tcp"]
  /\ UNCHANGED <<locked, result, versions, sessionLifetime,
                 supportAuthenticationProtocol, lookupRequest,
                 reauthenticationThreshold, connected, sasl, now, cand, sent, replies, calls,
                 negotiations, saslExchanges, userSends, connectReturns,
                 lookupBuilds>>
  /\ UNCHANGED <<disconnects, requestVersion, reauthResult, budget, rpcVars>>

\* the lock timeout fires for a waiting caller: acquire() rejects, and the
\* finally block of connect() calls lock.release()
LockTimeout(p) ==
  /\ pc[p] = "waiting"
  /\ LET rest == SelectSeq(waiting, LAMBDA q : q # p)
     IN ReleaseLock(p, "LockTimeout", rest)
  /\ UNCHANGED <<brokerFields, reauthenticationThreshold, connected, sasl, now, cand, sent, replies,
                 history>>
  /\ UNCHANGED <<disconnects, requestVersion, reauthResult, budget, rpcVars>>

\* mutant: connect() without the isConnected() early return
ConnectAcquiredAlwaysReconnect(p) ==
  /\ pc[p] = "acquired"
  /\ authenticatedAt' = NullTime
  /\ tcpConnects' = tcpConnects + 1
  /\ pc' = [pc EXCEPT ![p] = "tcp"]
  /\ UNCHANGED <<locked, waiting, result, versions, sessionLifetime,
                 supportAuthenticationProtocol, lookupRequest,
                 reauthenticationThreshold, connected, sasl, now, cand, sent, replies, calls,
                 negotiations, saslExchanges, userSends, connectReturns,
                 lookupBuilds>>
  /\ UNCHANGED <<disconnects, requestVersion, reauthResult, budget, rpcVars>>

\* mutant: line 99 records the time instead of clearing authenticatedAt
ConnectAcquiredStamps(p) ==
  /\ pc[p] = "acquired"
  /\ IF isConnected
     THEN /\ ReleaseLock(p, "ok", waiting)
          /\ UNCHANGED <<authenticatedAt, tcpConnects>>
     ELSE /\ authenticatedAt' = now
          /\ tcpConnects' = tcpConnects + 1
          /\ pc' = [pc EXCEPT ![p] = "tcp"]
          /\ UNCHANGED <<locked, waiting, result>>
  /\ UNCHANGED <<versions, sessionLifetime, supportAuthenticationProtocol,
                 lookupRequest, reauthenticationThreshold, connected, sasl, now,
                 cand, sent, replies, calls, negotiations, saslExchanges, userSends,
                 connectReturns, lookupBuilds>>
  /\ UNCHANGED <<disconnects, requestVersion, reauthResult, budget, rpcVars>>

\* mutant: connect() goes on to connection.connect() without clearing
\* authenticatedAt
ConnectAcquiredKeepsAuth(p) ==
  /\ pc[p] = "acquired"
  /\ IF isConnected
     THEN /\ ReleaseLock(p, "ok", waiting)
          /\ UNCHANGED <<authenticatedAt, tcpConnects>>
     ELSE /\ authenticatedAt' = authenticatedAt
          /\ tcpConnects' = tcpConnects + 1
          /\ pc' = [pc EXCEPT ![p] = "tcp"]
          /\ UNCHANGED <<locked, waiting, result>>
  /\ UNCHANGED <<versions, sessionLifetime, supportAuthenticationProtocol,
                 lookupRequest, reauthenticationThreshold, connected, sasl, now,
                 cand, sent, replies, calls, negotiations, saslExchanges, userSends,
                 connectReturns, lookupBuilds>>
  /\ UNCHANGED <<disconnects, requestVersion, reauthResult, budget, rpcVars>>

\* after acquire(): lines 96-100
ConnectAcquired(p) ==
  /\ pc[p] = "acquired"
  /\ IF isConnected
     THEN /\ ReleaseLock(p, "ok", waiting)
          /\ UNCHANGED <<authenticatedAt, tcpConnects>>
     ELSE /\ authenticatedAt' = NullTime
          /\ tcpConnects' = tcpConnects + 1
          /\ pc' = [pc EXCEPT ![p] = "tcp"]
          /\ UNCHANGED <<locked, waiting, result>>
  /\ UNCHANGED <<versions, sessionLifetime, supportAuthenticationProtocol,
                 lookupRequest, reauthenticationThreshold, connected, sasl, now,
                 cand, sent, replies, calls, negotiations, saslExchanges, userSends,
                 connectReturns, lookupBuilds>>
  /\ UNCHANGED <<disconnects, requestVersion, reauthResult, budget, rpcVars>>

\* mutant: supportAuthenticationProtocol is not resolved before SASL
AfterVersionsNoProbe(p, v) ==
  /\ versions' = v
  /\ lookupRequest' = lookup(v)
  /\ lookupBuilds' = lookupBuilds + 1
  /\ UNCHANGED supportAuthenticationProtocol
  /\ IF authenticatedAt = NullTime /\ sasl
     THEN /\ saslExchanges' = saslExchanges + 1
          /\ pc' = [pc EXCEPT ![p] = "sasl"]
          /\ UNCHANGED <<locked, waiting, result>>
     ELSE /\ ReleaseLock(p, "ok", waiting)
          /\ UNCHANGED saslExchanges

\* mutant: the lookup is built from the versions held before this connect()
AfterVersionsStaleLookup(p, v) ==
  /\ versions' = v
  /\ lookupRequest' = lookup(versions)
  /\ lookupBuilds' = lookupBuilds + 1
  /\ supportAuthenticationProtocol' =
       IF supportAuthenticationProtocol = "null"
       THEN IF LookupResult(lookup(versions), SaslAuthenticateKey,
                            SaslAuthenticateVersions) = "ok"
            THEN "true" ELSE "false"
       ELSE supportAuthenticationProtocol
  /\ IF authenticatedAt = NullTime /\ sasl
     THEN /\ saslExchanges' = saslExchanges + 1
          /\ pc' = [pc EXCEPT ![p] = "sasl"]
          /\ UNCHANGED <<locked, waiting, result>>
     ELSE /\ ReleaseLock(p, "ok", waiting)
          /\ UNCHANGED saslExchanges

\* mutant: supportAuthenticationProtocol is probed on every connect()
AfterVersionsReprobes(p, v) ==
  /\ versions' = v
  /\ lookupRequest' = lookup(v)
  /\ lookupBuilds' = lookupBuilds + 1
  /\ supportAuthenticationProtocol' =
       IF LookupResult(lookup(v), SaslAuthenticateKey, SaslAuthenticateVersions) = "ok"
       THEN "true" ELSE "false"
  /\ IF authenticatedAt = NullTime /\ sasl
     THEN /\ saslExchanges' = saslExchanges + 1
          /\ pc' = [pc EXCEPT ![p] = "sasl"]
          /\ UNCHANGED <<locked, waiting, result>>
     ELSE /\ ReleaseLock(p, "ok", waiting)
          /\ UNCHANGED saslExchanges

\* lines 104-124 once this.versions is v: build the lookup, resolve
\* supportAuthenticationProtocol, then start SASL or finish
AfterVersions(p, v) ==
  /\ versions' = v
  /\ lookupRequest' = lookup(v)
  /\ lookupBuilds' = lookupBuilds + 1
  /\ supportAuthenticationProtocol' =
       IF supportAuthenticationProtocol = "null"
       THEN IF LookupResult(lookup(v), SaslAuthenticateKey, SaslAuthenticateVersions) = "ok"
            THEN "true" ELSE "false"
       ELSE supportAuthenticationProtocol
  /\ IF authenticatedAt = NullTime /\ sasl
     THEN /\ saslExchanges' = saslExchanges + 1
          /\ pc' = [pc EXCEPT ![p] = "sasl"]
          /\ UNCHANGED <<locked, waiting, result>>
     ELSE /\ ReleaseLock(p, "ok", waiting)
          /\ UNCHANGED saslExchanges

\* connection.connect() settles: lines 100-103
TcpDone(p, ok) ==
  /\ pc[p] = "tcp"
  /\ IF ok
     THEN /\ connected' = TRUE
          /\ IF versions.isNull
             THEN /\ negotiations' = negotiations + 1
                  /\ cand' = [cand EXCEPT ![p] = 1]
                  /\ sent' = [sent EXCEPT ![p] = <<availableVersions[1]>>]
                  /\ replies' = [replies EXCEPT ![p] = <<>>]
                  /\ pc' = [pc EXCEPT ![p] = "apiv"]
                  /\ UNCHANGED <<versions, lookupRequest, lookupBuilds,
                                 supportAuthenticationProtocol, saslExchanges,
                                 locked, waiting, result>>
             ELSE /\ AfterVersions(p, versions)
                  /\ UNCHANGED <<negotiations, cand, sent, replies>>
     ELSE /\ ReleaseLock(p, "ConnectError", waiting)
          /\ UNCHANGED <<connected, versions, lookupRequest, lookupBuilds,
                         supportAuthenticationProtocol, saslExchanges,
                         negotiations, cand, sent, replies>>
  /\ UNCHANGED <<authenticatedAt, sessionLifetime, reauthenticationThreshold, sasl,
                 now, calls, tcpConnects, userSends, connectReturns>>
  /\ UNCHANGED <<disconnects, requestVersion, reauthResult, budget, rpcVars>>

\* mutant: the loop gives up one candidate early
HasNextCandidateSkipsLast(p) == cand[p] < Len(availableVersions) - 1

\* for (const candidateVersion of availableVersions): another candidate is left
HasNextCandidate(p) == cand[p] < Len(availableVersions)

\* mutant: the catch block swallows every error
SwallowedAny(outcome) == outcome \in {"UNSUPPORTED_VERSION", "OtherError"}

\* catch (e) { if (e.type !== 'UNSUPPORTED_VERSION') throw e } (lines 159-163)
Swallowed(outcome) == outcome = "UNSUPPORTED_VERSION"

\* the catch block of the apiVersions() loop for error `outcome` (lines
\* 159-163), then the next iteration, or the throw after the loop (165-167)
NegotiationCatch(p, outcome) ==
  IF Swallowed(outcome)
  THEN IF HasNextCandidate(p)
       THEN /\ cand' = [cand EXCEPT ![p] = cand[p] + 1]
            /\ sent' = [sent EXCEPT ![p] =
                          Append(sent[p], availableVersions[cand[p] + 1])]
            /\ pc' = [pc EXCEPT ![p] = "apiv"]
            /\ UNCHANGED <<locked, waiting, result>>
       ELSE /\ ReleaseLock(p, "ApiVersionsNotSupported", waiting)
            /\ UNCHANGED <<cand, sent>>
  ELSE /\ ReleaseLock(p, IF outcome = "ConnectionClosed"
                         THEN "NegotiationConnectionClosed"
                         ELSE "NegotiationError", waiting)
       /\ UNCHANGED <<cand, sent>>

\* the ApiVersions request for candidate cand[p] settles: lines 149-173 and,
\* inside SEND_REQUEST, lines 827-835
ApiVersionsResponse(p, outcome, table) ==
  /\ pc[p] = "apiv"
  /\ replies' = [replies EXCEPT ![p] = Append(replies[p], outcome)]
  /\ CASE outcome = "ok" ->
            /\ AfterVersions(p, [isNull |-> FALSE, table |-> table])
            /\ UNCHANGED <<cand, sent, authenticatedAt, connected, disconnects>>
       [] outcome # "ok" /\ ClosesConnection(outcome) ->
            \* SEND_REQUEST catches it and awaits this.disconnect()
            /\ DisconnectEffect
            /\ pc' = [pc EXCEPT ![p] = "apivDisconnect"]
            /\ UNCHANGED <<versions, lookupRequest, lookupBuilds,
                           supportAuthenticationProtocol, saslExchanges, cand, sent,
                           locked, waiting, result>>
       [] outcome # "ok" /\ ~ClosesConnection(outcome) ->
            /\ NegotiationCatch(p, outcome)
            /\ UNCHANGED <<versions, lookupRequest, lookupBuilds,
                           supportAuthenticationProtocol, saslExchanges,
                           authenticatedAt, connected, disconnects>>
  /\ UNCHANGED <<sessionLifetime, reauthenticationThreshold, sasl, now, calls,
                 tcpConnects, negotiations, userSends, connectReturns>>
  /\ UNCHANGED <<requestVersion, reauthResult, budget, rpcVars>>

\* disconnect() inside SEND_REQUEST returned: the error is re-raised into
\* the catch block of apiVersions()
ApiVersionsDisconnected(p) ==
  /\ pc[p] = "apivDisconnect"
  /\ NegotiationCatch(p, replies[p][Len(replies[p])])
  /\ UNCHANGED <<brokerFields, reauthenticationThreshold, connected, sasl, now,
                 replies, history>>
  /\ UNCHANGED <<disconnects, requestVersion, reauthResult, budget, rpcVars>>

\* mutant: release() is not in a finally block, a SASL failure skips it
SaslDoneNoFinally(p, ok, lifetime) ==
  /\ pc[p] = "sasl"
  /\ IF ok
     THEN /\ authenticatedAt' = now
          /\ sessionLifetime' = lifetime
          /\ ReleaseLock(p, "ok", waiting)
     ELSE /\ pc' = [pc EXCEPT ![p] = "idle"]
          /\ result' = [result EXCEPT ![p] = "SaslError"]
          /\ UNCHANGED <<authenticatedAt, sessionLifetime, locked, waiting>>
  /\ UNCHANGED <<versions, supportAuthenticationProtocol, lookupRequest,
                 reauthenticationThreshold, connected, sasl, now, cand, sent, replies, history>>
  /\ UNCHANGED <<disconnects, requestVersion, reauthResult, budget, rpcVars>>

\* mutant: the authentication time is recorded before the exchange settles
SaslDoneMarksAuthenticated(p, ok, lifetime) ==
  /\ pc[p] = "sasl"
  /\ authenticatedAt' = now
  /\ IF ok
     THEN /\ sessionLifetime' = lifetime
          /\ ReleaseLock(p, "ok", waiting)
     ELSE /\ ReleaseLock(p, "SaslError", waiting)
          /\ UNCHANGED sessionLifetime
  /\ UNCHANGED <<versions, supportAuthenticationProtocol, lookupRequest,
                 reauthenticationThreshold, connected, sasl, now, cand, sent, replies, history>>
  /\ UNCHANGED <<disconnects, requestVersion, reauthResult, budget, rpcVars>>

\* mutant: a successful exchange stores the session lifetime but not the
\* authentication time
SaslDoneNoTimestamp(p, ok, lifetime) ==
  /\ pc[p] = "sasl"
  /\ IF ok
     THEN /\ authenticatedAt' = authenticatedAt
          /\ sessionLifetime' = lifetime
          /\ ReleaseLock(p, "ok", waiting)
     ELSE /\ ReleaseLock(p, "SaslError", waiting)
          /\ UNCHANGED <<authenticatedAt, sessionLifetime>>
  /\ UNCHANGED <<versions, supportAuthenticationProtocol, lookupRequest,
                 reauthenticationThreshold, connected, sasl, now, cand, sent, replies, history>>
  /\ UNCHANGED <<disconnects, requestVersion, reauthResult, budget, rpcVars>>

\* authenticator.authenticate() settles: lines 120-124
SaslDone(p, ok, lifetime) ==
  /\ pc[p] = "sasl"
  /\ IF ok
     THEN /\ authenticatedAt' = now
          /\ sessionLifetime' = lifetime
          /\ ReleaseLock(p, "ok", waiting)
     ELSE /\ ReleaseLock(p, "SaslError", waiting)
          /\ UNCHANGED <<authenticatedAt, sessionLifetime>>
  /\ UNCHANGED <<versions, supportAuthenticationProtocol, lookupRequest,
                 reauthenticationThreshold, connected, sasl, now, cand, sent, replies, history>>
  /\ UNCHANGED <<disconnects, requestVersion, reauthResult, budget, rpcVars>>

\* `await this.lock.release()` resumes: connect() returns or rethrows
ReleaseDone(p) ==
  /\ pc[p] = "releasing"
  /\ pc' = [pc EXCEPT ![p] = "idle"]
  /\ connectReturns' = connectReturns + 1
  \* the locals of apiVersions() are gone with the call
  /\ cand' = [cand EXCEPT ![p] = 0]
  /\ sent' = [sent EXCEPT ![p] = <<>>]
  /\ replies' = [replies EXCEPT ![p] = <<>>]
  /\ UNCHANGED <<brokerFields, reauthenticationThreshold, connected, sasl, locked,
                 waiting, now, result, calls, tcpConnects, negotiations,
                 saslExchanges, userSends, lookupBuilds>>
  /\ UNCHANGED <<disconnects, requestVersion, reauthResult, budget, rpcVars>>

\* mutant: disconnect() takes the connect lock before it does anything
CallDisconnectLocked(p) ==
  /\ MayCall(p)
  /\ ~locked
  /\ calls' = calls + 1
  /\ DisconnectEffect
  /\ locked' = TRUE
  /\ pc' = [pc EXCEPT ![p] = "disconnecting"]
  /\ result' = [result EXCEPT ![p] = "pending"]
  /\ UNCHANGED <<versions, sessionLifetime, supportAuthenticationProtocol,
                 lookupRequest, reauthenticationThreshold, sasl, waiting,
                 now, cand, sent, replies, tcpConnects, negotiations, saslExchanges, userSends,
                 connectReturns, lookupBuilds>>
  /\ UNCHANGED <<requestVersion, reauthResult, budget, rpcVars>>

\* disconnect() is called: lines 135-136 up to the await
CallDisconnect(p) ==
  /\ MayCall(p)
  /\ calls' = calls + 1
  /\ DisconnectEffect
  /\ pc' = [pc EXCEPT ![p] = "disconnecting"]
  /\ result' = [result EXCEPT ![p] = "pending"]
  /\ UNCHANGED <<versions, sessionLifetime, supportAuthenticationProtocol,
                 lookupRequest, reauthenticationThreshold, sasl, locked, waiting,
                 now, cand, sent, replies, tcpConnects, negotiations, saslExchanges, userSends,
                 connectReturns, lookupBuilds>>
  /\ UNCHANGED <<requestVersion, reauthResult, budget, rpcVars>>

\* connection.disconnect() resolved: disconnect() returns
DisconnectDone(p) ==
  /\ pc[p] = "disconnecting"
  /\ pc' = [pc EXCEPT ![p] = "idle"]
  /\ result' = [result EXCEPT ![p] = "disconnected"]
  /\ UNCHANGED <<brokerFields, reauthenticationThreshold, connected, sasl, locked,
                 waiting, now, cand, sent, replies, history>>
  /\ UNCHANGED <<disconnects, requestVersion, reauthResult, budget, rpcVars>>

(* ------------------------- metadata(), SEND_REQUEST ------------------- *)
\* mutant: metadata() sends without resolving the request through lookupRequest
CallMetadataUnchecked(p) ==
  /\ MayCall(p)
  /\ calls' = calls + 1
  /\ userSends' = userSends + 1
  /\ pc' = [pc EXCEPT ![p] = "sending"]
  /\ result' = [result EXCEPT ![p] = "pending"]
  /\ requestVersion' = [requestVersion EXCEPT ![p] = 0]
  /\ UNCHANGED <<brokerFields, reauthenticationThreshold, connected, sasl, locked,
                 waiting, now, cand, sent, replies, tcpConnects, negotiations, saslExchanges,
                 connectReturns, lookupBuilds>>
  /\ UNCHANGED <<disconnects, reauthResult, budget, rpcVars>>

\* mutant: metadata() goes through connect() when isConnected() is false
CallMetadataGated(p) ==
  IF isConnected THEN CallMetadataUnchecked(p) ELSE CallConnect(p)

\* metadata([]) is called: lines 182-185 up to the await in SEND_REQUEST
CallMetadata(p) ==
  /\ MayCall(p)
  /\ calls' = calls + 1
  /\ LET r == LookupResult(lookupRequest, MetadataKey, MetadataVersions)
     IN IF r = "ok"
        THEN /\ userSends' = userSends + 1
             /\ pc' = [pc EXCEPT ![p] = "sending"]
             /\ result' = [result EXCEPT ![p] = "pending"]
             /\ requestVersion' = [requestVersion EXCEPT ![p] =
                    SelectedVersion(lookupRequest, MetadataKey, MetadataVersions)]
        ELSE /\ result' = [result EXCEPT ![p] = r]
             /\ UNCHANGED <<userSends, pc, requestVersion>>
  /\ UNCHANGED <<brokerFields, reauthenticationThreshold, connected, sasl, locked,
                 waiting, now, cand, sent, replies, tcpConnects, negotiations, saslExchanges,
                 connectReturns, lookupBuilds>>
  /\ UNCHANGED <<disconnects, reauthResult, budget, rpcVars>>

\* connection.send settles for a user request: lines 827-835
SendResponse(p, outcome) ==
  /\ pc[p] = "sending"
  /\ CASE outcome = "ok" ->
            /\ pc' = [pc EXCEPT ![p] = "idle"]
            /\ result' = [result EXCEPT ![p] = "metadata"]
            /\ requestVersion' = [requestVersion EXCEPT ![p] = NoVersion]
            /\ UNCHANGED <<authenticatedAt, connected, disconnects>>
       [] outcome # "ok" /\ ClosesConnection(outcome) ->
            \* await this.disconnect(), the error is kept for the throw
            /\ DisconnectEffect
            /\ pc' = [pc EXCEPT ![p] = "sendDisconnect"]
            /\ result' = [result EXCEPT ![p] = SendErrorName(outcome)]
            /\ UNCHANGED requestVersion
       [] outcome # "ok" /\ ~ClosesConnection(outcome) ->
            /\ pc' = [pc EXCEPT ![p] = "idle"]
            /\ result' = [result EXCEPT ![p] = SendErrorName(outcome)]
            /\ requestVersion' = [requestVersion EXCEPT ![p] = NoVersion]
            /\ UNCHANGED <<authenticatedAt, connected, disconnects>>
  /\ UNCHANGED <<versions, sessionLifetime, supportAuthenticationProtocol,
                 lookupRequest, reauthenticationThreshold, sasl, locked, waiting,
                 now, cand, sent, replies, history>>
  /\ UNCHANGED <<reauthResult, budget, rpcVars>>

\* disconnect() inside SEND_REQUEST returned: the error is re-raised
SendDisconnected(p) ==
  /\ pc[p] = "sendDisconnect"
  /\ pc' = [pc EXCEPT ![p] = "idle"]
  /\ requestVersion' = [requestVersion EXCEPT ![p] = NoVersion]
  /\ UNCHANGED <<brokerFields, reauthenticationThreshold, connected, sasl, locked,
                 waiting, now, cand, sent, replies, result, history>>
  /\ UNCHANGED <<disconnects, reauthResult, budget, rpcVars>>

(* ----------------------------- environment ---------------------------- *)
\* the monotonic clock advances.  The broker reads the clock only as the time
\* elapsed since authenticatedAt (line 815) and only when sessionLifetime is
\* not zero (line 809), so only those ticks are modelled.
Tick ==
  /\ now < MaxTime
  /\ authenticatedAt # NullTime
  /\ sessionLifetime # 0
  /\ now' = now + 1
  /\ UNCHANGED <<brokerFields, reauthenticationThreshold, connected, sasl, locked,
                 waiting, pc, cand, sent, replies, result, history>>
  /\ UNCHANGED <<disconnects, requestVersion, reauthResult, budget, rpcVars>>

\* this[PRIVATE.SHOULD_REAUTHENTICATE]() is called and returns (lines 808-822)
CallShouldReauthenticate ==
  /\ reauthResult' = (IF shouldReauthenticate THEN "true" ELSE "false")
  /\ UNCHANGED <<brokerFields, reauthenticationThreshold, connected, sasl, locked,
                 waiting, now, pc, cand, sent, replies, result, history>>
  /\ UNCHANGED <<disconnects, requestVersion, budget, rpcVars>>

\* d milliseconds pass on the monotonic clock
Elapse(d) ==
  /\ now' = now + d
  /\ UNCHANGED <<brokerFields, reauthenticationThreshold, connected, sasl, locked,
                 waiting, pc, cand, sent, replies, result, history>>
  /\ UNCHANGED <<disconnects, requestVersion, reauthResult, budget, rpcVars>>

\* the peer closes the transport
TransportDrop ==
  /\ connected
  /\ connected' = FALSE
  /\ UNCHANGED <<brokerFields, reauthenticationThreshold, sasl, locked, waiting,
                 now, pc, cand, sent, replies, result, history>>
  /\ UNCHANGED <<disconnects, requestVersion, reauthResult, budget, rpcVars>>

(* --------------------------- specification ---------------------------- *)
SendOutcomes == {"ok", "OtherError", "ConnectionClosed"}
ApiVersionsOutcomes == {"ok", "UNSUPPORTED_VERSION", "OtherError", "ConnectionClosed"}

(* ------------------------------- fetch() ------------------------------ *)
\* an optional field of an argument object: left out, or given with a value
Omitted == <<>>
Given(v) == <<v>>
\* a destructuring default `name = d`: d replaces a field that was left out
Default(v, d) == IF v = Omitted THEN d ELSE v[1]

\* ISOLATION_LEVEL.READ_COMMITTED
READ_COMMITTED == 1

TopicNames == {"a", "b"}
\* the entry of partition n in `partitions`; partition 0 leaves the optional
\* fields out
PartitionEntry(n) ==
  [partition |-> n, fetchOffset |-> 10 * n, maxBytes |-> 1024,
   currentLeaderEpoch |-> IF n = 0 THEN Omitted ELSE Given(5),
   logStartOffset |-> IF n = 0 THEN Omitted ELSE Given(7)]
PartitionLists ==
  {[i \in 1..n |-> PartitionEntry(i - 1)] : n \in 0..MaxPartitions}
RECURSIVE Partitions(_)
\* number of partitions a list of topic entries names in all
Partitions(topics) ==
  IF topics = <<>> THEN 0
  ELSE Len(Head(topics).partitions) + Partitions(Tail(topics))
TopicLists ==
  {t \in UNION {[1..n -> [topic : TopicNames, partitions : PartitionLists]] :
                  n \in 0..MaxTopics} : Partitions(t) <= MaxPairs}
SampleTopics == <<[topic |-> "a", partitions |-> <<PartitionEntry(0), PartitionEntry(1)>>]>>
\* arguments of fetch(): every combination of optional fields for one list
\* of topics, and every list of topics with the optional fields left out
FetchInputs ==
  [replicaId : {Omitted, Given(2)}, isolationLevel : {Omitted, Given(0)},
   maxWaitTime : {Omitted, Given(100)}, minBytes : {Omitted, Given(2)},
   maxBytes : {Omitted, Given(2048)}, rackId : {Omitted, Given("rack-a")},
   topics : {SampleTopics}]
  \cup
  [replicaId : {Omitted}, isolationLevel : {Omitted}, maxWaitTime : {Omitted},
   minBytes : {Omitted}, maxBytes : {Omitted}, rackId : {Omitted},
   topics : TopicLists]
NoFetchArgs ==
  [replicaId |-> Omitted, isolationLevel |-> Omitted, maxWaitTime |-> Omitted,
   minBytes |-> Omitted, maxBytes |-> Omitted, rackId |-> Omitted,
   topics |-> <<>>]
NoFetchRequest == [built |-> FALSE]

\* topics.reduce(... partitions.forEach(push {topic, partition}) ...):
\* lines 281-286
RECURSIVE flatten(_)
flatten(topics) ==
  IF topics = <<>> THEN <<>>
  ELSE LET h == Head(topics)
       IN [i \in 1..Len(h.partitions) |->
              [topic |-> h.topic, partition |-> h.partitions[i]]]
          \o flatten(Tail(topics))

\* shuffle(array): the results it may return, every reordering of the array
Shuffles(array) ==
  {[i \in 1..Len(array) |-> array[f[i]]] : f \in Permutations(1..Len(array))}

RECURSIVE consolidateOverwrites(_, _)
RECURSIVE consolidateNoMerge(_, _)
RECURSIVE consolidate(_, _)
\* mutant: a pair of the same topic replaces the partitions of the last entry
consolidateOverwrites(acc, rest) ==
  IF rest = <<>> THEN acc
  ELSE LET x == Head(rest)
           n == Len(acc)
       IN IF n > 0 /\ acc[n].topic = x.topic
          THEN consolidateOverwrites(
                  [acc EXCEPT ![n].partitions = <<x.partition>>], Tail(rest))
          ELSE consolidateOverwrites(
                  Append(acc, [topic |-> x.topic, partitions |-> <<x.partition>>]),
                  Tail(rest))

\* mutant: every pair opens a topic entry of its own
consolidateNoMerge(acc, rest) ==
  IF rest = <<>> THEN acc
  ELSE LET x == Head(rest)
       IN consolidateNoMerge(
             Append(acc, [topic |-> x.topic, partitions |-> <<x.partition>>]),
             Tail(rest))

\* shuffledTopicPartitions.reduce(..., []): lines 289-298; acc is the
\* accumulator, rest the pairs still to be visited
consolidate(acc, rest) ==
  IF rest = <<>> THEN acc
  ELSE LET x == Head(rest)
           n == Len(acc)
       IN IF n > 0 /\ acc[n].topic = x.topic
          THEN consolidate(
                  [acc EXCEPT ![n].partitions = Append(@, x.partition)], Tail(rest))
          ELSE consolidate(
                  Append(acc, [topic |-> x.topic, partitions |-> <<x.partition>>]),
                  Tail(rest))

\* mutant: the parameters of fetch() carry no defaults
fetchFactoryArgsNoDefaults(args, topics) ==
  [replicaId |-> args.replicaId, isolationLevel |-> args.isolationLevel,
   maxWaitTime |-> Default(args.maxWaitTime, 0),
   minBytes |-> Default(args.minBytes, 0),
   maxBytes |-> Default(args.maxBytes, 0),
   topics |-> topics,
   rackId |-> Default(args.rackId, "undefined")]

\* the object fetch() passes to the request factory: its parameter defaults
\* (line 277) and lines 300-308
fetchFactoryArgs(args, topics) ==
  [replicaId |-> args.replicaId, isolationLevel |-> args.isolationLevel,
   maxWaitTime |-> Default(args.maxWaitTime, 5000),
   minBytes |-> Default(args.minBytes, 1),
   maxBytes |-> Default(args.maxBytes, 10485760),
   topics |-> topics,
   rackId |-> Default(args.rackId, "")]

\* encodePartition of the version 9 request
encodePartition(part) ==
  [partition |-> part.partition,
   currentLeaderEpoch |-> Default(part.currentLeaderEpoch, -1),
   fetchOffset |-> part.fetchOffset,
   logStartOffset |-> Default(part.logStartOffset, -1),
   maxBytes |-> part.maxBytes]

\* encodeTopic of the version 9 request
encodeTopic(t) ==
  [topic |-> t.topic,
   partitions |-> [i \in 1..Len(t.partitions) |-> encodePartition(t.partitions[i])]]

\* the Fetch request of version 9: the fields its encoder writes, with the
\* defaults of its parameters; sessionId, sessionEpoch and forgottenTopics
\* are never passed by fetch()
FetchV9Request(a) ==
  [apiVersion |-> 9,
   replicaId |-> a.replicaId,
   maxWaitTime |-> a.maxWaitTime,
   minBytes |-> a.minBytes,
   maxBytes |-> a.maxBytes,
   isolationLevel |-> Default(a.isolationLevel, READ_COMMITTED),
   sessionId |-> Default(Omitted, 0),
   sessionEpoch |-> Default(Omitted, -1),
   topics |-> [i \in 1..Len(a.topics) |-> encodeTopic(a.topics[i])],
   forgottenTopics |-> Default(Omitted, <<>>)]

\* requests.Fetch, the versioned factory of the Fetch family, for version 9:
\* it fills in the replica id of a normal consumer and passes on the fields
\* that version knows (rackId is not one of them)
FetchProtocolV9(fa) ==
  FetchV9Request([replicaId |-> Default(fa.replicaId, -1),
                  isolationLevel |-> fa.isolationLevel,
                  maxWaitTime |-> fa.maxWaitTime,
                  minBytes |-> fa.minBytes,
                  maxBytes |-> fa.maxBytes,
                  topics |-> fa.topics])

\* fetch(fetchArgs) up to the request it hands to SEND_REQUEST (lines
\* 277-309); shuffled is what shuffle() returned (line 287)
CallFetch(shuffled) ==
  /\ ~fetchRequest.built
  /\ LookupResult(lookupRequest, FetchKey, FetchVersions) = "ok"
  /\ SelectedVersion(lookupRequest, FetchKey, FetchVersions) = 9
  /\ shuffled \in Shuffles(flatten(fetchArgs.topics))
  /\ LET fa == fetchFactoryArgs(fetchArgs, consolidate(<<>>, shuffled))
     IN fetchRequest' = [built |-> TRUE, shuffled |-> shuffled, args |-> fa,
                         wire |-> FetchProtocolV9(fa)]
  /\ UNCHANGED <<brokerFields, reauthenticationThreshold, connected, sasl, locked,
                 waiting, now, pc, cand, result, sent, replies, history,
                 disconnects, requestVersion, reauthResult, budget>>
  /\ UNCHANGED <<fetchArgs, listOffsetsResponse, listOffsetsResult,
                 joinRequests, joinReplies>>

(* ---------------------------- listOffsets() --------------------------- *)
\* a partition of a decoded ListOffsets response: version 0 carries an array
\* `offsets` (possibly empty), later versions a single `offset`
OffsetArrays == {<<>>, <<7>>, <<7, 9>>}
PartitionResponses ==
  [partition : {0}, errorCode : {0}, offsets : {Given(o) : o \in OffsetArrays},
   offset : {Omitted}]
  \cup [partition : {0}, errorCode : {0}, offsets : {Omitted}, offset : {Given(42)}]
\* result.responses: one entry per topic (the topic name plays no part)
ListOffsetsResponses ==
  {r \in UNION {[1..n -> [topic : {"a"},
                          partitions : UNION {[1..k -> PartitionResponses] :
                                                 k \in 0..MaxPartitions}]] :
                  n \in 0..MaxTopics} : Partitions(r) <= MaxPairs}
NoListOffsetsResult == [returned |-> FALSE]

\* array.pop(): the last element, undefined for an empty array
pop(array) == IF array = <<>> THEN Omitted ELSE Given(array[Len(array)])

\* mutant: the first offset of the array is kept
normalizePartitionTakesFirst(partitionResponse) ==
  IF partitionResponse.offsets # Omitted
  THEN [partition |-> partitionResponse.partition,
        errorCode |-> partitionResponse.errorCode,
        offsets |-> Omitted,
        offset |-> IF partitionResponse.offsets[1] = <<>> THEN Omitted
                   ELSE Given(partitionResponse.offsets[1][1])]
  ELSE partitionResponse

\* ({ offsets, ...partitionData }) =>
\*    offsets ? { ...partitionData, offset: offsets.pop() } : partitionData
\* (lines 427-429); an array, empty or not, is truthy
normalizePartition(partitionResponse) ==
  IF partitionResponse.offsets # Omitted
  THEN [partition |-> partitionResponse.partition,
        errorCode |-> partitionResponse.errorCode,
        offsets |-> Omitted,
        offset |-> pop(partitionResponse.offsets[1])]
  ELSE partitionResponse

\* listOffsets() once SEND_REQUEST has returned the decoded response: the
\* loop of lines 426-430 and the return
ListOffsetsReturns ==
  /\ ~listOffsetsResult.returned
  /\ listOffsetsResult' =
        [returned |-> TRUE,
         responses |->
            [i \in DOMAIN listOffsetsResponse |->
               [topic |-> listOffsetsResponse[i].topic,
                partitions |->
                   [j \in DOMAIN listOffsetsResponse[i].partitions |->
                       normalizePartition(listOffsetsResponse[i].partitions[j])]]]]
  /\ UNCHANGED <<brokerFields, reauthenticationThreshold, connected, sasl, locked,
                 waiting, now, pc, cand, result, sent, replies, history,
                 disconnects, requestVersion, reauthResult, budget>>
  /\ UNCHANGED <<fetchArgs, fetchRequest, listOffsetsResponse, joinRequests,
                 joinReplies>>

(* ----------------------------- joinGroup() ---------------------------- *)
\* arguments of joinGroup(): memberId and protocolType are optional
JoinGroupInputs ==
  [groupId : {"g"}, sessionTimeout : {30000}, rebalanceTimeout : {60000},
   memberId : {Omitted, Given("m0")},
   protocolType : {Omitted, Given("connect")},
   groupProtocols : {<<"RoundRobinAssigner">>}]
\* how a JoinGroup request may end, and the member ids the coordinator may
\* put in a KafkaJSMemberIdRequired error
JoinOutcomes == {"ok", "MemberIdRequired", "OtherError", "ConnectionClosed"}
ErrorMemberIds == {"m1", "m2"}

\* the name of the error joinGroup() raises for a failed request
JoinErrorName(outcome) ==
  IF outcome = "MemberIdRequired" THEN "MemberIdRequired" ELSE SendErrorName(outcome)

\* the request makeRequest(assignedMemberId) builds: lines 353-360
joinGroupRequest(args, assignedMemberId) ==
  [groupId |-> args.groupId,
   sessionTimeout |-> args.sessionTimeout,
   rebalanceTimeout |-> args.rebalanceTimeout,
   memberId |-> assignedMemberId,
   protocolType |-> Default(args.protocolType, "consumer"),
   groupProtocols |-> args.groupProtocols]

\* mutant: every KafkaJSMemberIdRequired failure is answered with a new request
RetriesJoinAlways(p, outcome) == outcome = "MemberIdRequired"

\* the failure is caught by the catch of lines 364-369 and answered with
\* makeRequest(error.memberId): only the first request is inside the try
RetriesJoin(p, outcome) ==
  outcome = "MemberIdRequired" /\ Len(joinRequests[p]) = 1

\* joinGroup(args) is called: lines 350-362 up to the await in SEND_REQUEST
CallJoinGroup(p, args) ==
  /\ MayCall(p)
  /\ calls' = calls + 1
  /\ LET r == LookupResult(lookupRequest, JoinGroupKey, JoinGroupVersions)
     IN IF r = "ok"
        THEN /\ userSends' = userSends + 1
             /\ pc' = [pc EXCEPT ![p] = "joining"]
             /\ result' = [result EXCEPT ![p] = "pending"]
             /\ joinRequests' = [joinRequests EXCEPT ![p] =
                    <<joinGroupRequest(args, Default(args.memberId, ""))>>]
             /\ joinReplies' = [joinReplies EXCEPT ![p] = <<>>]
        ELSE /\ result' = [result EXCEPT ![p] = r]
             /\ joinRequests' = [joinRequests EXCEPT ![p] = <<>>]
             /\ joinReplies' = [joinReplies EXCEPT ![p] = <<>>]
             /\ UNCHANGED <<userSends, pc>>
  /\ UNCHANGED <<brokerFields, reauthenticationThreshold, connected, sasl, locked,
                 waiting, now, cand, sent, replies, tcpConnects, negotiations,
                 saslExchanges, connectReturns, lookupBuilds>>
  /\ UNCHANGED <<disconnects, requestVersion, reauthResult, budget>>
  /\ UNCHANGED <<fetchArgs, fetchRequest, listOffsetsResponse, listOffsetsResult>>

\* connection.send settles for a JoinGroup request: SEND_REQUEST (lines
\* 827-835) and the try/catch of joinGroup (lines 361-369); errorMemberId is
\* the memberId field of a KafkaJSMemberIdRequired error
JoinGroupResponse(p, outcome, errorMemberId) ==
  /\ pc[p] = "joining"
  /\ joinReplies' = [joinReplies EXCEPT ![p] =
        Append(@, [outcome |-> outcome,
                   memberId |-> IF outcome = "MemberIdRequired"
                                THEN errorMemberId ELSE ""])]
  /\ CASE outcome = "ok" ->
            /\ pc' = [pc EXCEPT ![p] = "idle"]
            /\ result' = [result EXCEPT ![p] = "joined"]
            /\ UNCHANGED <<authenticatedAt, connected, disconnects, userSends,
                           joinRequests>>
       [] outcome # "ok" /\ ClosesConnection(outcome) ->
            /\ DisconnectEffect
            /\ pc' = [pc EXCEPT ![p] = "joinDisconnect"]
            /\ result' = [result EXCEPT ![p] = JoinErrorName(outcome)]
            /\ UNCHANGED <<userSends, joinRequests>>
       [] outcome # "ok" /\ ~ClosesConnection(outcome) /\ RetriesJoin(p, outcome) ->
            /\ joinRequests' = [joinRequests EXCEPT ![p] =
                  Append(@, [joinRequests[p][1] EXCEPT !.memberId = errorMemberId])]
            /\ userSends' = userSends + 1
            /\ UNCHANGED <<pc, result, authenticatedAt, connected, disconnects>>
       [] outcome # "ok" /\ ~ClosesConnection(outcome) /\ ~RetriesJoin(p, outcome) ->
            /\ pc' = [pc EXCEPT ![p] = "idle"]
            /\ result' = [result EXCEPT ![p] = JoinErrorName(outcome)]
            /\ UNCHANGED <<authenticatedAt, connected, disconnects, userSends,
                           joinRequests>>
  /\ UNCHANGED <<versions, sessionLifetime, supportAuthenticationProtocol,
                 lookupRequest, reauthenticationThreshold, sasl, locked, waiting,
                 now, cand, sent, replies, calls, tcpConnects, negotiations,
                 saslExchanges, connectReturns, lookupBuilds>>
  /\ UNCHANGED <<requestVersion, reauthResult, budget>>
  /\ UNCHANGED <<fetchArgs, fetchRequest, listOffsetsResponse, listOffsetsResult>>

\* disconnect() inside SEND_REQUEST returned: the error is re-raised, and
\* the catch of joinGroup() passes it on (it is not KafkaJSMemberIdRequired)
JoinGroupDisconnected(p) ==
  /\ pc[p] = "joinDisconnect"
  /\ pc' = [pc EXCEPT ![p] = "idle"]
  /\ UNCHANGED <<brokerFields, reauthenticationThreshold, connected, sasl, locked,
                 waiting, now, cand, result, sent, replies, history>>
  /\ UNCHANGED <<disconnects, requestVersion, reauthResult, budget, rpcVars>>

\* no RPC other than metadata() was called
NoRpcData ==
  /\ fetchArgs = NoFetchArgs
  /\ fetchRequest = NoFetchRequest
  /\ listOffsetsResponse = <<>>
  /\ listOffsetsResult = NoListOffsetsResult
  /\ joinRequests = [p \in Procs |-> <<>>]
  /\ joinReplies = [p \in Procs |-> <<>>]

\* mutant: the constructor builds the lookup when versions are supplied
InitEagerLookup ==
  /\ versions \in {NullVersions, [isNull |-> FALSE, table |-> TableFull]}
  /\ supportAuthenticationProtocol \in {"null", "true", "false"}
  /\ reauthenticationThreshold \in Thresholds
  /\ authenticatedAt = NullTime
  /\ sessionLifetime = 0
  /\ lookupRequest = (IF versions.isNull THEN notInitializedLookup ELSE lookup(versions))
  /\ connected = FALSE
  /\ sasl \in BOOLEAN
  /\ locked = FALSE
  /\ waiting = <<>>
  /\ now = 0
  /\ pc = [p \in Procs |-> "idle"]
  /\ cand = [p \in Procs |-> 0]
  /\ result = [p \in Procs |-> "none"]
  /\ calls = 0
  /\ tcpConnects = 0
  /\ negotiations = 0
  /\ saslExchanges = 0
  /\ userSends = 0
  /\ connectReturns = 0
  /\ lookupBuilds = 0
  /\ disconnects = 0
  /\ sent = [p \in Procs |-> <<>>]
  /\ replies = [p \in Procs |-> <<>>]
  /\ requestVersion = [p \in Procs |-> NoVersion]
  /\ reauthResult = "none"
  /\ budget = MaxCalls
  /\ NoRpcData

\* the fields the constructor sets whatever its arguments (lines 57-78), on
\* a connection that was never opened
Constructed ==
  /\ versions \in {NullVersions, [isNull |-> FALSE, table |-> TableFull]}
  /\ supportAuthenticationProtocol \in {"null", "true", "false"}
  /\ authenticatedAt = NullTime
  /\ sessionLifetime = 0
  /\ lookupRequest = notInitializedLookup
  /\ connected = FALSE
  /\ sasl \in BOOLEAN
  /\ locked = FALSE
  /\ waiting = <<>>
  /\ now = 0
  /\ pc = [p \in Procs |-> "idle"]
  /\ cand = [p \in Procs |-> 0]
  /\ result = [p \in Procs |-> "none"]
  /\ calls = 0
  /\ tcpConnects = 0
  /\ negotiations = 0
  /\ saslExchanges = 0
  /\ userSends = 0
  /\ connectReturns = 0
  /\ lookupBuilds = 0
  /\ disconnects = 0
  /\ sent = [p \in Procs |-> <<>>]
  /\ replies = [p \in Procs |-> <<>>]
  /\ requestVersion = [p \in Procs |-> NoVersion]
  /\ reauthResult = "none"

\* the state after the constructor (lines 57-78)
Init ==
  /\ Constructed
  /\ reauthenticationThreshold \in Thresholds
  /\ budget = MaxCalls
  /\ NoRpcData

Next ==
  \/ \E p \in Procs : CallConnect(p)
  \/ \E p \in Procs : LockTimeout(p)
  \/ \E p \in Procs : ConnectAcquired(p)
  \/ \E p \in Procs, ok \in BOOLEAN : TcpDone(p, ok)
  \/ \E p \in Procs, o \in ApiVersionsOutcomes, t \in ServerTables :
        ApiVersionsResponse(p, o, t)
  \/ \E p \in Procs : ApiVersionsDisconnected(p)
  \/ \E p \in Procs, ok \in BOOLEAN, l \in SessionLifetimes : SaslDone(p, ok, l)
  \/ \E p \in Procs : ReleaseDone(p)
  \/ \E p \in Procs : CallDisconnect(p)
  \/ \E p \in Procs : DisconnectDone(p)
  \/ \E p \in Procs : CallMetadata(p)
  \/ \E p \in Procs, o \in SendOutcomes : SendResponse(p, o)
  \/ \E p \in Procs : SendDisconnected(p)
  \/ Tick
  \/ TransportDrop

Spec == Init /\ [][Next]_vars

(* ----------------------- scenario specifications ---------------------- *)
\* N concurrent connect() calls, one per caller, on a broker that was never
\* connected and has no versions; transport, negotiation and SASL succeed,
\* no lock timeout, and the advertised sessionLifetime is 0 or above
\* reauthenticationThreshold.  The callers queued on the lock are resumed by
\* release(), so the clock does not advance before their isConnected() check.
InitNotNegotiated == Init /\ versions = NullVersions

NextSerialisedConnect ==
  \/ \E p \in Procs : result[p] = "none" /\ CallConnect(p)
  \/ \E p \in Procs : ConnectAcquired(p)
  \/ \E p \in Procs : TcpDone(p, TRUE)
  \/ \E p \in Procs, t \in ServerTables : ApiVersionsResponse(p, "ok", t)
  \/ \E p \in Procs, t \in ServerTables :
        cand[p] < Len(availableVersions) /\ ApiVersionsResponse(p, "UNSUPPORTED_VERSION", t)
  \/ \E p \in Procs :
        \E l \in {x \in SessionLifetimes : x = 0 \/ x > reauthenticationThreshold} :
           SaslDone(p, TRUE, l)
  \/ \E p \in Procs : ReleaseDone(p)

SpecSerialisedConnect == InitNotNegotiated /\ [][NextSerialisedConnect]_vars

\* one caller calls connect() twice in sequence; every step succeeds and the
\* transport stays up; the clock may advance at any time
NextSequentialConnect ==
  \/ calls < 2 /\ CallConnect(1)
  \/ ConnectAcquired(1)
  \/ TcpDone(1, TRUE)
  \/ \E t \in ServerTables : ApiVersionsResponse(1, "ok", t)
  \/ \E l \in SessionLifetimes : SaslDone(1, TRUE, l)
  \/ ReleaseDone(1)
  \/ Tick

SpecSequentialConnect == Init /\ [][NextSequentialConnect]_vars

\* one caller calls connect() and then metadata([]) twice, one call after the
\* other; every step of connect() succeeds, a send may settle in any way
InitSequentialRpc ==
  /\ Constructed
  /\ reauthenticationThreshold \in Thresholds
  /\ budget = 3
  /\ NoRpcData

NextSequentialRpc ==
  \/ calls = 0 /\ CallConnect(1)
  \/ ConnectAcquired(1)
  \/ TcpDone(1, TRUE)
  \/ \E t \in ServerTables : ApiVersionsResponse(1, "ok", t)
  \/ \E l \in SessionLifetimes : SaslDone(1, TRUE, l)
  \/ ReleaseDone(1)
  \/ calls > 0 /\ CallMetadata(1)
  \/ \E o \in SendOutcomes : SendResponse(1, o)
  \/ SendDisconnected(1)

SpecSequentialRpc == InitSequentialRpc /\ [][NextSequentialRpc]_vars

\* scenario S1: SASL configured, reauthenticationThreshold 10000 ms, every
\* SASL exchange advertises a session lifetime of 60000 ms.  One caller
\* calls connect() and metadata([]) in any order, one call after the other;
\* between two calls 40000 or 15000 ms may pass, up to 55000 ms in all.
InitReauthentication ==
  /\ Constructed
  /\ sasl
  /\ reauthenticationThreshold = 10000
  /\ budget = 4
  /\ NoRpcData

NextReauthentication ==
  \/ CallConnect(1)
  \/ ConnectAcquired(1)
  \/ TcpDone(1, TRUE)
  \/ \E t \in ServerTables : ApiVersionsResponse(1, "ok", t)
  \/ SaslDone(1, TRUE, 60000)
  \/ ReleaseDone(1)
  \/ calls > 0 /\ CallMetadata(1)
  \/ \E o \in SendOutcomes : SendResponse(1, o)
  \/ SendDisconnected(1)
  \/ \E d \in {40000, 15000} :
        /\ pc[1] = "idle"
        /\ authenticatedAt # NullTime
        /\ now + d <= 55000
        /\ Elapse(d)

SpecReauthentication == InitReauthentication /\ [][NextReauthentication]_vars

\* shouldReauthenticate() called directly on a broker that has connected
\* once: any session lifetime and threshold, authenticatedAt NIL (after a
\* disconnect) or an instant of the clock, and the clock advancing by 1 or
\* 1000 ms between two calls
InitShouldReauthenticate ==
  /\ versions = [isNull |-> FALSE, table |-> TableFull]
  /\ lookupRequest = lookup(versions)
  /\ supportAuthenticationProtocol = "true"
  /\ sasl = TRUE
  /\ sessionLifetime \in ReauthLifetimes
  /\ reauthenticationThreshold \in ReauthThresholds
  /\ authenticatedAt \in {NullTime} \cup ReauthInstants
  /\ connected = (authenticatedAt # NullTime)
  /\ now = (IF authenticatedAt = NullTime THEN 0 ELSE authenticatedAt)
  /\ locked = FALSE
  /\ waiting = <<>>
  /\ pc = [p \in Procs |-> "idle"]
  /\ cand = [p \in Procs |-> 0]
  /\ sent = [p \in Procs |-> <<>>]
  /\ replies = [p \in Procs |-> <<>>]
  /\ requestVersion = [p \in Procs |-> NoVersion]
  /\ result = [p \in Procs |-> IF p = 1 THEN "ok" ELSE "none"]
  /\ calls = 1
  /\ budget = 1
  /\ NoRpcData
  /\ tcpConnects = 1
  /\ negotiations = 1
  /\ saslExchanges = 1
  /\ userSends = 0
  /\ connectReturns = 1
  /\ lookupBuilds = 1
  /\ disconnects = (IF authenticatedAt = NullTime THEN 1 ELSE 0)
  /\ reauthResult = "none"

NextShouldReauthenticate ==
  \/ CallShouldReauthenticate
  \/ \E d \in {1, 1000} : now + d <= MaxClock /\ Elapse(d)

SpecShouldReauthenticate == InitShouldReauthenticate /\ [][NextShouldReauthenticate]_vars

(* ---- a connected broker whose callers are idle ---- *)
\* the state a successful connect() without sasl leaves behind
ConnectedIdle ==
  /\ versions = [isNull |-> FALSE, table |-> TableFull]
  /\ lookupRequest = lookup(versions)
  /\ supportAuthenticationProtocol = "true"
  /\ sasl = FALSE
  /\ sessionLifetime = 0
  /\ reauthenticationThreshold \in Thresholds
  /\ authenticatedAt = NullTime
  /\ connected = TRUE
  /\ now = 0
  /\ locked = FALSE
  /\ waiting = <<>>
  /\ pc = [p \in Procs |-> "idle"]
  /\ cand = [p \in Procs |-> 0]
  /\ sent = [p \in Procs |-> <<>>]
  /\ replies = [p \in Procs |-> <<>>]
  /\ requestVersion = [p \in Procs |-> NoVersion]
  /\ result = [p \in Procs |-> IF p = 1 THEN "ok" ELSE "none"]
  /\ calls = 1
  /\ tcpConnects = 1
  /\ negotiations = 1
  /\ saslExchanges = 0
  /\ userSends = 0
  /\ connectReturns = 1
  /\ lookupBuilds = 1
  /\ disconnects = 0
  /\ reauthResult = "none"

(* ---- fetch() applied to every argument of FetchInputs ---- *)
InitFetch ==
  /\ ConnectedIdle
  /\ budget = 2
  /\ fetchArgs \in FetchInputs
  /\ fetchRequest = NoFetchRequest
  /\ listOffsetsResponse = <<>>
  /\ listOffsetsResult = NoListOffsetsResult
  /\ joinRequests = [p \in Procs |-> <<>>]
  /\ joinReplies = [p \in Procs |-> <<>>]

NextFetch == \E shuffled \in Shuffles(flatten(fetchArgs.topics)) : CallFetch(shuffled)

SpecFetch == InitFetch /\ [][NextFetch]_vars

(* ---- listOffsets() applied to every response of ListOffsetsResponses ---- *)
InitListOffsets ==
  /\ ConnectedIdle
  /\ budget = 2
  /\ listOffsetsResponse \in ListOffsetsResponses
  /\ listOffsetsResult = NoListOffsetsResult
  /\ fetchArgs = NoFetchArgs
  /\ fetchRequest = NoFetchRequest
  /\ joinRequests = [p \in Procs |-> <<>>]
  /\ joinReplies = [p \in Procs |-> <<>>]

NextListOffsets == ListOffsetsReturns

SpecListOffsets == InitListOffsets /\ [][NextListOffsets]_vars

(* ---- joinGroup() calls on a connected broker ---- *)
InitJoinGroup ==
  /\ ConnectedIdle
  /\ budget = 3
  /\ NoRpcData

NextJoinGroup ==
  \/ \E p \in Procs, args \in JoinGroupInputs : CallJoinGroup(p, args)
  \/ \E p \in Procs, o \in JoinOutcomes, m \in ErrorMemberIds :
        JoinGroupResponse(p, o, m)
  \/ \E p \in Procs : JoinGroupDisconnected(p)

SpecJoinGroup == InitJoinGroup /\ [][NextJoinGroup]_vars

(* ------------------------ vocabulary of the claims --------------------- *)
\* positions of connect() between a successful acquire() and release()
HoldingPcs == {"acquired", "tcp", "apiv", "apivDisconnect", "sasl"}
ConnectPcs == HoldingPcs \cup {"waiting", "releasing"}
\* results a metadata() call can settle with
MetadataResults == {"metadata", "BrokerNotConnected", "UNSUPPORTED_VERSION",
                    "SendError", "ConnectionClosed"}
\* no caller has called connect() so far
NoConnectCalled ==
  /\ connectReturns = 0
  /\ \A q \in Procs : pc[q] \notin ConnectPcs
\* reference form of the re-authentication condition (spec 4.5)
ReauthDue ==
  /\ sessionLifetime # 0
  /\ \/ authenticatedAt = NullTime
     \/ (now - authenticatedAt) + reauthenticationThreshold >= sessionLifetime
\* a step taken by metadata(): the call itself or the settling of its send
RpcStep ==
  \/ calls' = calls + 1 /\ (pc' = pc \/ userSends' = userSends + 1)
  \/ \E p \in Procs : pc[p] \in {"sending", "sendDisconnect"} /\ pc'[p] # pc[p]

C2_Original ==
  (calls = 2 /\ pc[1] = "idle") =>
     /\ tcpConnects = 1
     /\ saslExchanges = (IF sasl THEN 1 ELSE 0)

\* C2 amended: when the session is not due for re-authentication at the
\* second call's isConnected() check (SASL not configured, sessionLifetime 0,
\* or elapsed + reauthenticationThreshold < sessionLifetime), the second
\* connect() releases the lock and returns without changing any broker field,
\* and one TCP connect and one SASL exchange have been performed in total.
C2_IdempotentConnect ==
  [][ (/\ pc[1] = "acquired"
       /\ calls = 2
       /\ pc'[1] # "acquired"
       /\ (sasl => ~ReauthDue))
      => (/\ UNCHANGED <<brokerFields, connected>>
          /\ pc'[1] = "releasing"
          /\ result'[1] = "ok"
          /\ ~locked'
          /\ tcpConnects' = 1
          /\ saslExchanges' = (IF sasl THEN 1 ELSE 0)) ]_vars

C2_Witness ==
  /\ calls = 2 /\ pc[1] = "idle" /\ result[1] = "ok"
  /\ sasl /\ sessionLifetime # 0
  /\ tcpConnects = 1 /\ saslExchanges = 1

(* -------------------------------- C3 ---------------------------------- *)
\* C3 as stated: a metadata([]) call issued while no connect() was ever
\* called goes through connect() first and returns metadata after exactly one
\* TCP connect, one negotiation and one SASL exchange.
C3_Original ==
  \A p \in Procs :
     (pc[p] = "idle" /\ result[p] \in MetadataResults /\ NoConnectCalled) =>
        /\ result[p] = "metadata"
        /\ tcpConnects = 1
        /\ saslExchanges = (IF sasl THEN 1 ELSE 0)

\* C3 amended: RPC methods are not gated by isConnected() and never call
\* connect(): no step of metadata() touches the lock or performs a TCP
\* connect, a negotiation or a SASL exchange, and a metadata([]) call issued
\* while no connect() was ever called fails with 'Broker not connected'
\* without sending anything.
C3_RpcNeverConnects ==
  [][ RpcStep =>
        /\ UNCHANGED <<tcpConnects, negotiations, saslExchanges, locked, waiting,
                       versions, lookupRequest, supportAuthenticationProtocol,
                       sessionLifetime>>
        /\ (NoConnectCalled /\ calls' = calls + 1) =>
              /\ pc' = pc
              /\ userSends' = userSends
              /\ \E p \in Procs : result'[p] = "BrokerNotConnected" ]_vars

C3_Witness ==
  /\ \A p \in Procs : pc[p] = "idle" /\ result[p] = "BrokerNotConnected"
  /\ tcpConnects = 0 /\ negotiations = 0 /\ saslExchanges = 0

C6_LockReleased ==
  /\ locked => \E q \in Procs : pc[q] \in HoldingPcs
  /\ (\A q \in Procs : pc[q] = "idle") => (~locked /\ waiting = <<>>)

C6_Witness ==
  /\ \E p \in Procs : pc[p] = "idle" /\ result[p] \in {"ConnectError", "SaslError",
                                                       "ApiVersionsNotSupported"}
  /\ \E q \in Procs : pc[q] = "acquired" /\ result[q] = "pending"
  /\ connectReturns > 0

(* -------------------------------- C7 ---------------------------------- *)
\* C7: with sasl configured isConnected() is true only if the transport is
\* connected, authenticatedAt is set and no re-authentication is due; without
\* sasl it equals connection.connected.
C7_IsConnected ==
  IF sasl
  THEN isConnected => (connected /\ authenticatedAt # NullTime /\ ~ReauthDue)
  ELSE isConnected = connected

C7_Witness == sasl /\ isConnected /\ sessionLifetime # 0

(* -------------------------------- C8 ---------------------------------- *)
\* C8: in every reachable state authenticatedAt # NIL implies versions # NIL
\* and supportAuthenticationProtocol resolved.
C8_AuthenticatedImpliesNegotiated ==
  authenticatedAt # NullTime =>
     (~versions.isNull /\ supportAuthenticationProtocol # "null")

C8_Witness == authenticatedAt # NullTime /\ negotiations > 0

(* -------------------------------- C9 ---------------------------------- *)
\* C9: after any connect() call has returned successfully, lookupRequest is
\* not the not-initialized sentinel.
C9_LookupBuiltAfterConnect ==
  \A p \in Procs : (pc[p] = "idle" /\ result[p] = "ok") => lookupRequest.initialized

(* -------------------------------- C10 --------------------------------- *)
\* C10: until a connect() has built the lookup, also when versions were given
\* to the constructor, lookupRequest is the sentinel: every settled
\* metadata() call failed with 'Broker not connected' and nothing was sent.
C10_SentinelBeforeConnect ==
  lookupBuilds = 0 =>
     /\ lookupRequest = notInitializedLookup
     /\ userSends = 0
     /\ \A p \in Procs : pc[p] \notin {"sending", "sendDisconnect"}
     /\ \A p \in Procs : result[p] \in MetadataResults => result[p] = "BrokerNotConnected"

C10_Witness ==
  /\ lookupBuilds = 0
  /\ disconnects = 0
  /\ sent = [p \in Procs |-> <<>>]
  /\ replies = [p \in Procs |-> <<>>]
  /\ requestVersion = [p \in Procs |-> NoVersion]
  /\ reauthResult = "none"
  /\ ~versions.isNull
  /\ \E p \in Procs : pc[p] = "idle" /\ result[p] = "BrokerNotConnected"

(* -------------------------------- C11 --------------------------------- *)
\* C11: when the send of a user request fails with a connection-closed
\* error, SEND_REQUEST calls disconnect() once in that step: one more
\* connection.disconnect, authenticatedAt NIL and isConnected() false; the
\* error kept for the caller is that same error; the step that re-raises it
\* calls disconnect() no second time and changes no broker field; and when
\* no other caller has used the broker, isConnected() is still false when
\* the error reaches the caller.
C11_ConnectionClosedCascade ==
  [][ \A p \in Procs :
        /\ (pc[p] = "sending" /\ result'[p] = "ConnectionClosed") =>
              /\ pc'[p] = "sendDisconnect"
              /\ disconnects' = disconnects + 1
              /\ authenticatedAt' = NullTime
              /\ ~connected'
              /\ ~isConnected'
        /\ (pc[p] = "sendDisconnect" /\ pc'[p] # "sendDisconnect") =>
              /\ pc'[p] = "idle"
              /\ result'[p] = "ConnectionClosed"
              /\ disconnects' = disconnects
              /\ UNCHANGED <<brokerFields, connected>>
              /\ (\A q \in Procs \ {p} : result[q] = "none") =>
                    (authenticatedAt' = NullTime /\ ~isConnected') ]_vars

C11_Witness ==
  /\ \E p \in Procs : pc[p] = "idle" /\ result[p] = "ConnectionClosed"
  /\ disconnects = 1
  /\ sasl /\ sessionLifetime # 0 /\ saslExchanges = 1
  /\ authenticatedAt = NullTime /\ ~connected

(* -------------------------------- C12 --------------------------------- *)
\* C12 as stated: while the RPC issued after a send failed with
\* CONNECTION_CLOSED has its request in flight, a second TCP connect and,
\* with SASL, a second SASL exchange have been performed.
C12_Original ==
  (pc[1] = "sending" /\ userSends = 2 /\ disconnects = 1) =>
     /\ tcpConnects = 2
     /\ sasl => saslExchanges = 2

\* C12 amended: after a send has failed with CONNECTION_CLOSED the broker is
\* left with authenticatedAt NIL and the transport closed, and the next RPC
\* issued on it does not call connect(): its request is built with the
\* lookup of the earlier connect() and handed to connection.send at once,
\* with no TCP connect, no SASL exchange and no use of the lock.
C12_NextRpcDoesNotConnect ==
  [][ (calls' = calls + 1 /\ disconnects = 1) =>
        /\ result[1] = "ConnectionClosed"
        /\ authenticatedAt = NullTime /\ ~connected /\ ~isConnected
        /\ pc'[1] = "sending"
        /\ userSends' = userSends + 1
        /\ UNCHANGED <<tcpConnects, negotiations, saslExchanges, locked, waiting,
                       brokerFields, connected>> ]_vars

C12_Witness ==
  /\ pc[1] = "sending" /\ userSends = 2 /\ disconnects = 1
  /\ sasl /\ tcpConnects = 1 /\ saslExchanges = 1

(* -------------------------------- C13 --------------------------------- *)
\* C13: a send that fails with an error other than connection-closed, for a
\* user request or for an ApiVersions request of the negotiation, raises
\* that error to its caller in the same step, without disconnect(): no
\* connection.disconnect, the transport flag, authenticatedAt,
\* sessionLifetime, versions, lookupRequest and
\* supportAuthenticationProtocol keep their values.
C13_OtherErrorKeepsState ==
  [][ \A p \in Procs :
        /\ (pc[p] = "sending" /\ result'[p] = "SendError") =>
              /\ pc'[p] = "idle"
              /\ UNCHANGED <<brokerFields, connected, disconnects>>
        /\ (pc[p] = "apiv" /\ result'[p] = "NegotiationError") =>
              /\ pc'[p] = "releasing"
              /\ UNCHANGED <<brokerFields, connected, disconnects>> ]_vars

C13_Witness ==
  /\ \E p \in Procs : pc[p] = "idle" /\ result[p] = "SendError"
  /\ authenticatedAt # NullTime /\ sessionLifetime # 0 /\ connected
  /\ disconnects = 0

(* -------------------------------- C14 --------------------------------- *)
\* C14 as stated: with sessionLifetime 60000 and reauthenticationThreshold
\* 10000, while the request of a metadata([]) call made at 55000 ms is in
\* flight a second SASL exchange has been performed.
C14_Original ==
  (pc[1] = "sending" /\ now = 55000 /\ authenticatedAt = 0 /\ disconnects = 0)
     => saslExchanges >= 2

\* C14 amended: with sessionLifetime 60000 and reauthenticationThreshold
\* 10000, shouldReauthenticate() is false 40000 ms after authentication and
\* true from 50000 ms on, but no metadata([]) call, at 40000 ms or at 55000
\* ms, performs a TCP connect or a SASL exchange; the second SASL exchange
\* is performed by the next connect() call, which re-enters the connect
\* sequence at 55000 ms and returns at once at 40000 ms.
C14_ReauthenticationOnlyOnConnect ==
  [][ /\ RpcStep => UNCHANGED <<saslExchanges, tcpConnects, sessionLifetime>>
      /\ authenticatedAt # NullTime =>
            (shouldReauthenticate <=> now - authenticatedAt >= 50000)
      /\ (pc[1] = "acquired" /\ pc'[1] # "acquired"
            /\ connected /\ authenticatedAt # NullTime) =>
            IF now - authenticatedAt >= 50000
            THEN /\ pc'[1] = "tcp"
                 /\ tcpConnects' = tcpConnects + 1
                 /\ authenticatedAt' = NullTime
            ELSE /\ pc'[1] = "releasing"
                 /\ UNCHANGED <<tcpConnects, saslExchanges, authenticatedAt>> ]_vars

C14_Witness ==
  /\ pc[1] = "idle" /\ result[1] = "ok"
  /\ now = 55000 /\ authenticatedAt = 55000
  /\ userSends >= 1 /\ disconnects = 0
  /\ saslExchanges = 2

(* -------------------------------- C15 --------------------------------- *)
\* C15: for every sessionLifetime, reauthenticationThreshold, authenticatedAt
\* and clock value, shouldReauthenticate() returns false when sessionLifetime
\* is 0, otherwise true when authenticatedAt is NIL, otherwise whether
\* elapsed ms + reauthenticationThreshold >= sessionLifetime (equality
\* counts as true); the call changes no broker state.
C15_ShouldReauthenticateReference ==
  [][ reauthResult' # reauthResult =>
        /\ reauthResult' =
             (IF sessionLifetime = 0 THEN "false"
              ELSE IF authenticatedAt = NullTime THEN "true"
              ELSE IF (now - authenticatedAt) + reauthenticationThreshold
                         >= sessionLifetime THEN "true"
              ELSE "false")
        /\ UNCHANGED <<brokerFields, reauthenticationThreshold, connected, sasl,
                       locked, waiting, now, pc, result, history, disconnects>> ]_vars

C15_Witness ==
  /\ reauthResult = "true"
  /\ sessionLifetime # 0 /\ authenticatedAt # NullTime
  /\ (now - authenticatedAt) + reauthenticationThreshold = sessionLifetime
  /\ now - authenticatedAt >= 1000

(* -------------------------------- C16 --------------------------------- *)
\* C16 as stated: for every sessionLifetime > 0 and every
\* reauthenticationThreshold, a call of shouldReauthenticate at elapsed = 0
\* returns false.
C16_Original ==
  (/\ sessionLifetime > 0 /\ authenticatedAt # NullTime /\ now = authenticatedAt
   /\ reauthResult # "none")
     => reauthResult = "false"

\* C16 amended: for every sessionLifetime > 0 and every
\* reauthenticationThreshold, with authenticatedAt fixed, shouldReauthenticate
\* never goes back from true to false as elapsed grows and is true exactly
\* for elapsed >= sessionLifetime - reauthenticationThreshold; at elapsed = 0
\* it is false if and only if reauthenticationThreshold < sessionLifetime
\* (then it flips once, at elapsed = sessionLifetime -
\* reauthenticationThreshold), and otherwise it is true from the start.
C16_ShouldReauthenticateMonotone ==
  [][ (sessionLifetime > 0 /\ authenticatedAt # NullTime) =>
        /\ shouldReauthenticate <=>
              (now - authenticatedAt >= sessionLifetime - reauthenticationThreshold)
        /\ (now = authenticatedAt) =>
              (shouldReauthenticate <=> reauthenticationThreshold >= sessionLifetime)
        /\ shouldReauthenticate => shouldReauthenticate' ]_vars

C16_Witness ==
  /\ sessionLifetime > reauthenticationThreshold
  /\ authenticatedAt # NullTime
  /\ now - authenticatedAt >= 1000
  /\ shouldReauthenticate
  /\ reauthResult = "false"

(* -------------------------------- C17 --------------------------------- *)
\* C17: in every run of apiVersions() the ApiVersions versions sent so far
\* are strictly descending and are exactly the candidates not below the last
\* one sent, so every higher candidate is tried before a lower one and no
\* lower one is skipped ahead; when a candidate is answered no further
\* candidate is sent and that response becomes versions, from which the
\* lookup is built.
C17_DescendingProbes ==
  [][ \A p \in Procs :
        /\ \A i, j \in 1..Len(sent'[p]) : i < j => sent'[p][i] > sent'[p][j]
        /\ sent'[p] # <<>> =>
              {sent'[p][i] : i \in 1..Len(sent'[p])} =
                 {c \in ApiVersionsVersions : c >= sent'[p][Len(sent'[p])]}
        /\ (pc[p] = "apiv" /\ replies'[p] = Append(replies[p], "ok")) =>
              /\ sent'[p] = sent[p]
              /\ pc'[p] # "apiv"
              /\ ~versions'.isNull /\ versions'.table \in ServerTables
              /\ lookupRequest' = lookup(versions') ]_vars

C17_Witness ==
  \E p \in Procs :
     /\ sent[p] = <<3, 2>>
     /\ replies[p] = <<"UNSUPPORTED_VERSION", "ok">>
     /\ ~versions.isNull

(* -------------------------------- C18 --------------------------------- *)
\* C18: apiVersions() fails with 'API Versions not supported' only after one
\* request for each candidate version has been sent and each was rejected
\* with UNSUPPORTED_VERSION; connect() then fails with that error, leaves
\* versions and lookupRequest as they were, the lookup being the sentinel
\* while versions is NIL, and versions is NIL when no other caller has used
\* the broker.
C18_NegotiationExhausted ==
  [][ \A p \in Procs :
        (pc[p] \in {"apiv", "apivDisconnect"}
           /\ result'[p] = "ApiVersionsNotSupported") =>
          /\ Len(sent'[p]) = Cardinality(ApiVersionsVersions)
          /\ {sent'[p][i] : i \in 1..Len(sent'[p])} = ApiVersionsVersions
          /\ Len(replies'[p]) = Len(sent'[p])
          /\ \A i \in 1..Len(replies'[p]) : replies'[p][i] = "UNSUPPORTED_VERSION"
          /\ pc'[p] = "releasing"
          /\ UNCHANGED <<versions, lookupRequest>>
          /\ versions'.isNull => lookupRequest' = notInitializedLookup
          /\ (\A q \in Procs \ {p} : result[q] = "none") => versions'.isNull ]_vars

C18_Witness ==
  \E p \in Procs :
     /\ pc[p] = "releasing" /\ result[p] = "ApiVersionsNotSupported"
     /\ sent[p] = <<3, 2, 1, 0>>
     /\ versions.isNull /\ lookupRequest = notInitializedLookup

(* -------------------------------- C19 --------------------------------- *)
\* C19: in every run of apiVersions() each outcome that was followed by a
\* further candidate is UNSUPPORTED_VERSION, and an error of any other kind
\* is the last outcome of the run: no candidate is sent after it and
\* connect() fails with it, as soon as SEND_REQUEST has re-raised it.
C19_OnlyUnsupportedVersionSwallowed ==
  \A p \in Procs :
     /\ Len(sent[p]) = Len(replies[p]) + (IF pc[p] = "apiv" THEN 1 ELSE 0)
     /\ \A i \in 1..Len(replies[p]) :
          /\ i < Len(sent[p]) => replies[p][i] = "UNSUPPORTED_VERSION"
          /\ replies[p][i] \notin {"ok", "UNSUPPORTED_VERSION"} =>
                /\ i = Len(sent[p])
                /\ pc[p] \in {"apivDisconnect", "releasing"}
                /\ pc[p] = "releasing" =>
                      result[p] \in {"NegotiationError", "NegotiationConnectionClosed"}

C19_Witness ==
  \E p \in Procs :
     /\ pc[p] = "releasing" /\ result[p] = "NegotiationError"
     /\ sent[p] = <<3, 2>>
     /\ replies[p] = <<"UNSUPPORTED_VERSION", "OtherError">>

(* -------------------------------- C20 --------------------------------- *)
\* C20: a metadata() call sends the request of the highest version V that
\* the Metadata family implements with versions[Metadata].minVersion <= V <=
\* versions[Metadata].maxVersion, versions being the negotiated table; it
\* fails without sending when there is no such V (UNSUPPORTED_VERSION once a
\* lookup was built); and the SaslAuthenticate probe of connect() succeeds
\* exactly when the SaslAuthenticate family has a version in the advertised
\* range, failing when the API key is not advertised.
C20_LookupSelectsHighest ==
  [][ LET InRange(apiKey, family) ==
            {V \in family : \E e \in versions'.table :
                e.apiKey = apiKey /\ e.minVersion <= V /\ V <= e.maxVersion}
      IN /\ \A p \in Procs :
              (calls' = calls + 1 /\ pc'[p] = "sending") =>
                 /\ requestVersion'[p] \in InRange(MetadataKey, MetadataVersions)
                 /\ \A W \in InRange(MetadataKey, MetadataVersions) :
                       W <= requestVersion'[p]
         /\ (calls' = calls + 1 /\ pc' = pc) =>
                 /\ lookupRequest.initialized =>
                       InRange(MetadataKey, MetadataVersions) = {}
                 /\ \E p \in Procs :
                       result'[p] = (IF lookupRequest.initialized
                                     THEN "UNSUPPORTED_VERSION"
                                     ELSE "BrokerNotConnected")
         /\ (supportAuthenticationProtocol = "null"
               /\ supportAuthenticationProtocol' # "null") =>
                 (supportAuthenticationProtocol' = "true"
                    <=> InRange(SaslAuthenticateKey, SaslAuthenticateVersions) # {}) ]_vars

C20_Witness ==
  /\ versions.table = TableNoSaslAuthenticate
  /\ supportAuthenticationProtocol = "false"
  /\ \E p \in Procs : pc[p] = "sending" /\ requestVersion[p] = 2

(* -------------------------------- C21 --------------------------------- *)
\* C21: when the lookup of a user RPC fails after negotiation (a lookup was
\* built and the negotiated table holds no version of the API that the
\* family implements), the call ends at once with UNSUPPORTED_VERSION: no
\* request is handed to the connection, no further attempt is started, and
\* versions, authenticatedAt, sessionLifetime, supportAuthenticationProtocol,
\* lookupRequest, the connection, the lock and every counter of network
\* activity are left as they were.
C21_UnsupportedVersionPropagates ==
  [][ \A p \in Procs :
        LET InRange == {V \in MetadataVersions : \E e \in versions.table :
                           e.apiKey = MetadataKey /\ e.minVersion <= V
                              /\ V <= e.maxVersion}
            MetadataCalled == /\ calls' = calls + 1
                              /\ \/ pc'[p] = "sending" /\ pc[p] = "idle"
                                 \/ pc' = pc /\ result'[p] # result[p]
        IN (MetadataCalled /\ lookupRequest.initialized /\ InRange = {}) =>
              /\ result'[p] = "UNSUPPORTED_VERSION"
              /\ pc'[p] = "idle"
              /\ userSends' = userSends
              /\ requestVersion' = requestVersion
              /\ UNCHANGED <<brokerFields, connected, sasl, locked, waiting,
                             disconnects, tcpConnects, negotiations,
                             saslExchanges, lookupBuilds, connectReturns>> ]_vars

C21_Witness ==
  \E p \in Procs :
     /\ pc[p] = "idle"
     /\ result[p] = "UNSUPPORTED_VERSION"
     /\ lookupRequest.initialized
     /\ connected
     /\ authenticatedAt # NullTime
     /\ userSends = 0

(* -------------------------------- C26 --------------------------------- *)
\* C26: disconnect() never waits on the connect lock. Whoever may start a
\* call can start disconnect() whatever the state of the lock, the call
\* clears authenticatedAt and closes the transport at once without touching
\* the lock or its queue, and once started it can always complete, also
\* while another caller holds the lock; it returns normally.
C26_DisconnectNeverWaits ==
  /\ [](\A p \in Procs :
          /\ MayCall(p) => ENABLED CallDisconnect(p)
          /\ pc[p] = "disconnecting" => ENABLED DisconnectDone(p))
  /\ [][ \A p \in Procs :
           /\ (pc[p] = "idle" /\ pc'[p] = "disconnecting") =>
                 /\ authenticatedAt' = NullTime
                 /\ connected' = FALSE
                 /\ disconnects' = disconnects + 1
                 /\ UNCHANGED <<locked, waiting>>
                 /\ \A q \in Procs \ {p} : pc'[q] = pc[q]
           /\ (pc[p] = "disconnecting" /\ pc'[p] # "disconnecting") =>
                 /\ pc'[p] = "idle"
                 /\ result'[p] = "disconnected"
                 /\ UNCHANGED <<locked, waiting>> ]_vars

C26_Witness ==
  \E p, q \in Procs :
     /\ p # q
     /\ pc[p] = "idle"
     /\ result[p] = "disconnected"
     /\ pc[q] \in HoldingPcs
     /\ locked
     /\ authenticatedAt = NullTime
     /\ ~connected
     /\ tcpConnects > 0

(* -------------------------------- C27 --------------------------------- *)
\* a step taken by a caller that is inside connect() between the return of
\* its lock.acquire() and its lock.release()
HolderStep == \E p \in Procs : pc[p] \in HoldingPcs /\ pc'[p] # pc[p]

C28_LockTimeoutFailsConnect ==
  [][ \A p \in Procs :
        /\ (pc[p] = "waiting" /\ pc'[p] \notin {"waiting", "acquired"}) =>
              /\ pc'[p] = "releasing"
              /\ result'[p] = "LockTimeout"
              /\ UNCHANGED <<brokerFields, connected, tcpConnects,
                             negotiations, saslExchanges, lookupBuilds>>
        /\ (pc[p] = "releasing" /\ result[p] = "LockTimeout"
              /\ pc'[p] # "releasing") =>
              /\ pc'[p] = "idle"
              /\ result'[p] = "LockTimeout"
              /\ UNCHANGED <<brokerFields, connected, tcpConnects,
                             negotiations, saslExchanges, lookupBuilds>> ]_vars

C28_Witness ==
  \E p, q \in Procs :
     /\ pc[p] = "idle"
     /\ result[p] = "LockTimeout"
     /\ pc[q] \in HoldingPcs
     /\ tcpConnects = 1
     /\ connectReturns = 1

(* -------------------------------- C29 --------------------------------- *)
\* C29: when the SASL exchange of a connect() call fails, the call leaves
\* the exchange for its finally block with the authenticator's error as its
\* outcome and returns that error: it starts no second exchange, no TCP
\* connect and no negotiation, and it writes neither authenticatedAt nor
\* sessionLifetime. On a broker no other caller has used, authenticatedAt
\* is null and isConnected() is false when the exchange fails and when the
\* call returns.
C29_SaslFailureSurfaced ==
  [][ \A p \in Procs :
        LET Alone == \A q \in Procs \ {p} : result[q] = "none"
        IN /\ (pc[p] = "sasl" /\ pc' = pc) => saslExchanges' = saslExchanges
           /\ (pc[p] = "sasl" /\ pc'[p] # "sasl" /\ result'[p] # "ok") =>
                 /\ pc'[p] = "releasing"
                 /\ result'[p] = "SaslError"
                 /\ UNCHANGED <<brokerFields, connected, tcpConnects,
                                negotiations, saslExchanges>>
                 /\ Alone => (authenticatedAt' = NullTime /\ ~isConnected')
           /\ (pc[p] = "releasing" /\ result[p] = "SaslError"
                 /\ pc'[p] # "releasing") =>
                 /\ pc'[p] = "idle"
                 /\ result'[p] = "SaslError"
                 /\ UNCHANGED <<brokerFields, connected, tcpConnects,
                                negotiations, saslExchanges>>
                 /\ Alone => (authenticatedAt' = NullTime /\ ~isConnected') ]_vars

C29_Witness ==
  \E p \in Procs :
     /\ pc[p] = "idle"
     /\ result[p] = "SaslError"
     /\ sasl
     /\ connected
     /\ authenticatedAt = NullTime
     /\ ~isConnected
     /\ saslExchanges = 1
     /\ ~locked

(* ------------------------------ fetch claims -------------------------- *)
\* number of positions of seq that hold x
Occurrences(seq, x) == Cardinality({i \in DOMAIN seq : seq[i] = x})
\* the (topic, partition number) pairs of a list of topic entries, in order
TopicPartitionPairs(topics) ==
  LET flat == flatten(topics)
  IN [i \in DOMAIN flat |-> <<flat[i].topic, flat[i].partition.partition>>]
\* two sequences hold the same elements the same number of times
SameBag(s, t) ==
  /\ Len(s) = Len(t)
  /\ \A i \in DOMAIN s : Occurrences(t, s[i]) = Occurrences(s, s[i])
  /\ \A i \in DOMAIN t : Occurrences(s, t[i]) = Occurrences(t, t[i])

(* -------------------------------- C23 --------------------------------- *)
\* C23: the (topic, partition) pairs of the request fetch() hands to
\* SEND_REQUEST are exactly the pairs of its argument, each as many times as
\* the argument holds it: the shuffle and the regrouping lose, add and
\* duplicate nothing, both in the object given to the request factory and
\* in the topics the version 9 encoder writes.
C23_FetchPermutation ==
  fetchRequest.built =>
     LET in == TopicPartitionPairs(fetchArgs.topics)
     IN /\ SameBag(flatten(fetchRequest.args.topics), flatten(fetchArgs.topics))
        /\ SameBag(TopicPartitionPairs(fetchRequest.args.topics), in)
        /\ SameBag(TopicPartitionPairs(fetchRequest.wire.topics), in)

C23_Witness ==
  /\ fetchRequest.built
  /\ Len(fetchRequest.shuffled) >= 3
  /\ fetchRequest.shuffled # flatten(fetchArgs.topics)
  /\ \E i, j \in DOMAIN fetchRequest.shuffled :
        i # j /\ fetchRequest.shuffled[i] = fetchRequest.shuffled[j]

(* -------------------------------- C24 --------------------------------- *)
\* what C24 says of every request: read in order, the entries are the
\* shuffled pairs with each run of consecutive pairs of one topic merged
\* into one entry; no two adjacent entries share a topic; every entry has
\* at least one partition
Consolidated ==
  LET out == fetchRequest.args.topics
  IN /\ flatten(out) = fetchRequest.shuffled
     /\ \A i \in 1..(Len(out) - 1) : out[i].topic # out[i + 1].topic
     /\ \A i \in DOMAIN out : Len(out[i].partitions) >= 1

\* C24 as stated: the above, and for an argument that names a single topic
\* the request has exactly one topic entry.
C24_Original ==
  fetchRequest.built =>
     /\ Consolidated
     /\ Cardinality({fetchArgs.topics[i].topic : i \in DOMAIN fetchArgs.topics}) = 1
           => Len(fetchRequest.args.topics) = 1

\* C24: the above, and for an argument that names a single topic and at
\* least one partition of it the request has exactly one topic entry; a
\* topic named without partitions gets no entry.
C24_FetchConsolidation ==
  fetchRequest.built =>
     LET in == flatten(fetchArgs.topics)
     IN /\ Consolidated
        /\ (Len(in) >= 1 /\ \A i \in DOMAIN in : in[i].topic = in[1].topic)
              => Len(fetchRequest.args.topics) = 1
        /\ {fetchRequest.args.topics[j].topic : j \in DOMAIN fetchRequest.args.topics}
              = {in[j].topic : j \in DOMAIN in}

C24_Witness ==
  /\ fetchRequest.built
  /\ Len(fetchRequest.args.topics) >= 2
  /\ Len(fetchRequest.args.topics) < Len(fetchRequest.shuffled)

C25_Original ==
  listOffsetsResult.returned =>
     \A i \in DOMAIN listOffsetsResponse :
        \A j \in DOMAIN listOffsetsResponse[i].partitions :
           LET before == listOffsetsResponse[i].partitions[j]
               after == listOffsetsResult.responses[i].partitions[j]
           IN IF before.offsets # Omitted
              THEN /\ after.offsets = Omitted
                   /\ after.offset # Omitted
                   /\ after.offset[1] = before.offsets[1][Len(before.offsets[1])]
              ELSE after = before

\* C25: in the value listOffsets() returns, every partition record whose
\* response carried a non-empty offsets array has a scalar offset equal to
\* the last element of that array and no offsets field; a record whose
\* offsets array was empty has no offsets field and an undefined offset;
\* every other record is as it was in the response. Topics and partitions
\* keep their number and order, and the other fields their values.
C25_OffsetsNormalised ==
  listOffsetsResult.returned =>
     /\ Len(listOffsetsResult.responses) = Len(listOffsetsResponse)
     /\ \A i \in DOMAIN listOffsetsResponse :
          /\ listOffsetsResult.responses[i].topic = listOffsetsResponse[i].topic
          /\ Len(listOffsetsResult.responses[i].partitions)
                = Len(listOffsetsResponse[i].partitions)
          /\ \A j \in DOMAIN listOffsetsResponse[i].partitions :
               LET before == listOffsetsResponse[i].partitions[j]
                   after == listOffsetsResult.responses[i].partitions[j]
               IN /\ after.partition = before.partition
                  /\ after.errorCode = before.errorCode
                  /\ after.offsets = Omitted
                  /\ IF before.offsets = Omitted THEN after = before
                     ELSE IF before.offsets[1] = <<>> THEN after.offset = Omitted
                     ELSE after.offset
                            = <<before.offsets[1][Len(before.offsets[1])]>>

C25_Witness ==
  /\ listOffsetsResult.returned
  /\ \E i \in DOMAIN listOffsetsResponse :
        /\ Len(listOffsetsResponse[i].partitions) = 2
        /\ listOffsetsResponse[i].partitions[1].offsets = <<(<<7, 9>>)>>
        /\ listOffsetsResult.responses[i].partitions[1].offset = <<9>>
        /\ listOffsetsResponse[i].partitions[2].offsets = Omitted
        /\ listOffsetsResult.responses[i].partitions[2].offset = <<42>>

(* -------------------------------- C22 --------------------------------- *)
\* C22: a joinGroup() call hands at most two requests to the connection. It
\* sends a second one exactly when the first failed with MEMBER_ID_REQUIRED,
\* and that request carries the memberId of the error and otherwise the
\* fields of the first. Whatever ends the second request ends the call: its
\* failure, another MEMBER_ID_REQUIRED included, is the error the caller
\* gets. Any other failure of the first request is the error the caller
\* gets, with no second request.
C22_JoinGroupRetriesOnce ==
  \A p \in Procs :
     LET reqs == joinRequests[p]
         reps == joinReplies[p]
     IN /\ Len(reqs) <= 2
        /\ Len(reps) <= Len(reqs)
        /\ Len(reqs) = 2 =>
              /\ reps[1].outcome = "MemberIdRequired"
              /\ reqs[2].memberId = reps[1].memberId
              /\ reqs[2].groupId = reqs[1].groupId
              /\ reqs[2].sessionTimeout = reqs[1].sessionTimeout
              /\ reqs[2].rebalanceTimeout = reqs[1].rebalanceTimeout
              /\ reqs[2].protocolType = reqs[1].protocolType
              /\ reqs[2].groupProtocols = reqs[1].groupProtocols
        /\ (Len(reps) >= 1 /\ reps[1].outcome = "MemberIdRequired") =>
              Len(reqs) = 2
        /\ (Len(reps) >= 1 /\ reps[1].outcome \in {"OtherError", "ConnectionClosed"}) =>
              /\ Len(reqs) = 1
              /\ pc[p] \in {"idle", "joinDisconnect"}
              /\ result[p] = (IF reps[1].outcome = "ConnectionClosed"
                              THEN "ConnectionClosed" ELSE "SendError")
        /\ (Len(reps) = 2 /\ reps[2].outcome # "ok") =>
              /\ pc[p] \in {"idle", "joinDisconnect"}
              /\ result[p] = (CASE reps[2].outcome = "MemberIdRequired" -> "MemberIdRequired"
                                [] reps[2].outcome = "ConnectionClosed" -> "ConnectionClosed"
                                [] OTHER -> "SendError")
        /\ (Len(reps) >= 1 /\ reps[Len(reps)].outcome = "ok") =>
              (pc[p] = "idle" /\ result[p] = "joined")

C22_Witness ==
  \E p \in Procs :
     /\ pc[p] = "idle"
     /\ Len(joinRequests[p]) = 2
     /\ Len(joinReplies[p]) = 2
     /\ joinReplies[p][2].outcome = "MemberIdRequired"
     /\ result[p] = "MemberIdRequired"
     /\ joinRequests[p][1].memberId = ""
     /\ joinRequests[p][2].memberId = "m1"
     /\ joinReplies[p][2].memberId = "m2"

(* ------------- concurrent connect() and disconnect() calls ------------ *)
\* two callers issue three calls in all, each a connect() or a
\* disconnect(); every step of connect() may succeed or fail and the lock
\* timeout may fire for any waiting caller
InitConcurrentConnect ==
  /\ Constructed
  /\ reauthenticationThreshold \in Thresholds
  /\ budget = 3
  /\ NoRpcData

NextConcurrentConnect ==
  \/ \E p \in Procs : CallConnect(p)
  \/ \E p \in Procs : LockTimeout(p)
  \/ \E p \in Procs : ConnectAcquired(p)
  \/ \E p \in Procs, ok \in BOOLEAN : TcpDone(p, ok)
  \/ \E p \in Procs, o \in ApiVersionsOutcomes, t \in ServerTables :
        ApiVersionsResponse(p, o, t)
  \/ \E p \in Procs : ApiVersionsDisconnected(p)
  \/ \E p \in Procs, ok \in BOOLEAN, l \in SessionLifetimes : SaslDone(p, ok, l)
  \/ \E p \in Procs : ReleaseDone(p)
  \/ \E p \in Procs : CallDisconnect(p)
  \/ \E p \in Procs : DisconnectDone(p)

SpecConcurrentConnect == InitConcurrentConnect /\ [][NextConcurrentConnect]_vars

(* ---------------------------------------------------------------------- *)
\* C32: mutual exclusion of the connect critical section: in every
\* interleaving of concurrent connect() calls, lock timeouts included, at
\* most one caller is between a successful acquire() and its release(),
\* i.e. in the TCP connect, the version negotiation or the SASL exchange.
C32_MutualExclusion ==
  \A p, q \in Procs : (pc[p] \in HoldingPcs /\ pc[q] \in HoldingPcs) => p = q

(* ---------------------------------------------------------------------- *)
\* caller p leaves the program point `from` of connect() in this step
Leaves(p, from) == pc[p] = from /\ pc'[p] # from

\* some caller's connect() reaches lines 104-124 in this step: after a TCP
\* connect with versions present, or after an ApiVersions response
ReachesLookup ==
  \E p \in Procs :
     \/ Leaves(p, "tcp") /\ result'[p] # "ConnectError" /\ ~versions.isNull
     \/ Leaves(p, "apiv") /\ replies'[p] # <<>> /\ replies'[p][Len(replies'[p])] = "ok"

C34_VersionsStable ==
  [][/\ ~versions.isNull =>
          /\ versions' = versions
          /\ negotiations' = negotiations
          /\ \A p \in Procs : Len(sent'[p]) <= Len(sent[p])
     /\ negotiations' # negotiations => versions.isNull
    ]_vars

(* ---------------------------------------------------------------------- *)
\* whether the lookup l finds a SaslAuthenticate version (lines 107-113)
SaslAuthenticateFound(l) ==
  LookupResult(l, SaslAuthenticateKey, SaslAuthenticateVersions) = "ok"

\* C35: supportAuthenticationProtocol is resolved at most once: while
\* UNKNOWN, connect() sets it to YES if the lookup of SaslAuthenticate
\* succeeds and to NO if it fails; once YES or NO (resolved or supplied at
\* construction) it never changes, also across disconnect() and later
\* connect() calls.
C35_ProbedOnce ==
  [][/\ supportAuthenticationProtocol # "null" =>
          supportAuthenticationProtocol' = supportAuthenticationProtocol
     /\ (supportAuthenticationProtocol = "null"
           /\ supportAuthenticationProtocol' # "null") =>
          /\ lookupBuilds' = lookupBuilds + 1
          /\ supportAuthenticationProtocol' =
               (IF SaslAuthenticateFound(lookupRequest') THEN "true" ELSE "false")
     /\ (supportAuthenticationProtocol = "null" /\ lookupBuilds' # lookupBuilds) =>
          supportAuthenticationProtocol' # "null"
    ]_vars

\* a second connect() after a disconnect() has built a lookup that finds
\* SaslAuthenticate, and the NO the broker was given is still in place
C35_Witness ==
  /\ supportAuthenticationProtocol = "false"
  /\ SaslAuthenticateFound(lookupRequest)
  /\ lookupBuilds >= 2
  /\ disconnects >= 1

(* ---------------------------------------------------------------------- *)
\* C36: in every reachable state, isConnected() returning true implies that
\* lookupRequest is not the not-initialized sentinel, also without SASL and
\* after a connect() that failed during version negotiation while the
\* transport stayed up.
C36_ConnectedImpliesLookup == isConnected => lookupRequest.initialized

(* ---------------------------------------------------------------------- *)
\* connect() of caller p returns successfully in this step
ConnectReturnsOk(p) == pc[p] = "releasing" /\ pc'[p] = "idle" /\ result[p] = "ok"

\* C37 as stated: whenever connect() returns successfully with SASL
\* configured and the transport still up, isConnected() evaluated right
\* afterwards is true, for every advertised sessionLifetime and every
\* reauthenticationThreshold.
C37_Original ==
  [][(ConnectReturnsOk(1) /\ sasl /\ connected') => isConnected']_vars

\* C37 amended: at such a return the broker is authenticated, and
\* isConnected() is true exactly when the session is not already due for
\* re-authentication: always for sessionLifetime 0, never for a non-zero
\* sessionLifetime that is not above reauthenticationThreshold.
C37_ConnectedAfterConnect ==
  [][(ConnectReturnsOk(1) /\ sasl /\ connected') =>
        /\ authenticatedAt' # NullTime
        /\ isConnected' = ~ReauthDue'
        /\ sessionLifetime' = 0 => isConnected'
        /\ (sessionLifetime' # 0 /\ sessionLifetime' <= reauthenticationThreshold') =>
              ~isConnected'
    ]_vars

\* a first connect() has returned with a session that is not due yet
C37_Witness ==
  /\ sasl /\ connected
  /\ calls = 1 /\ pc[1] = "idle" /\ result[1] = "ok"
  /\ sessionLifetime > reauthenticationThreshold
  /\ isConnected

(* --------- disconnect() while a connect() call is suspended ----------- *)
\* caller 1 calls connect() once, caller 2 calls disconnect() once while
\* that connect() is suspended in the TCP connect, the version negotiation
\* or the SASL exchange; every step of connect() may succeed or fail
InitStaleConnect ==
  /\ Constructed
  /\ reauthenticationThreshold \in Thresholds
  /\ budget = 2
  /\ NoRpcData

NextStaleConnect ==
  \/ calls = 0 /\ CallConnect(1)
  \/ ConnectAcquired(1)
  \/ \E ok \in BOOLEAN : TcpDone(1, ok)
  \/ \E o \in ApiVersionsOutcomes, t \in ServerTables : ApiVersionsResponse(1, o, t)
  \/ ApiVersionsDisconnected(1)
  \/ \E ok \in BOOLEAN, l \in SessionLifetimes : SaslDone(1, ok, l)
  \/ ReleaseDone(1)
  \/ pc[1] \in {"tcp", "apiv", "sasl"} /\ CallDisconnect(2)
  \/ DisconnectDone(2)

SpecStaleConnect == InitStaleConnect /\ [][NextStaleConnect]_vars

(* ---------------------------------------------------------------------- *)
\* C38 as stated: once disconnect() has cleared authenticatedAt it remains
\* NIL until a connect() that started after that disconnect() completes a
\* SASL exchange; the connect() that was suspended when disconnect() ran
\* (here the only connect() there is) does not set it afterwards.
C38_Original == result[2] # "none" => authenticatedAt = NullTime

\* C38 amended: disconnect() leaves a suspended connect() where it is, and
\* authenticatedAt leaves NIL only when some connect(), started before or
\* after the disconnect(), completes its SASL exchange successfully.
C38_StaleConnectAuthenticates ==
  [][/\ calls' # calls /\ calls > 0 =>
          /\ authenticatedAt' = NullTime
          /\ pc'[1] = pc[1]
          /\ UNCHANGED <<locked, waiting>>
     /\ (authenticatedAt = NullTime /\ authenticatedAt' # NullTime) =>
          /\ Leaves(1, "sasl")
          /\ result'[1] = "ok"
          /\ authenticatedAt' = now
    ]_vars

\* the suspended connect() has authenticated the broker after disconnect()
\* returned
C38_Witness ==
  /\ result[2] = "disconnected"
  /\ result[1] = "ok" /\ pc[1] = "idle"
  /\ authenticatedAt # NullTime

(* ---------------------------------------------------------------------- *)
\* the concurrent scenario under the scheduling the claim assumes:
\* connection.connect(), every ApiVersions send, the SASL exchange and
\* connection.disconnect() settle, a resumed caller runs, and the timer of a
\* waiting acquire() fires unless the caller is handed the lock first
ConnectFairness ==
  \A p \in Procs :
     /\ WF_vars(ConnectAcquired(p))
     /\ WF_vars(\E ok \in BOOLEAN : TcpDone(p, ok))
     /\ WF_vars(\E o \in ApiVersionsOutcomes, t \in ServerTables :
                   ApiVersionsResponse(p, o, t))
     /\ WF_vars(ApiVersionsDisconnected(p))
     /\ WF_vars(\E ok \in BOOLEAN, l \in SessionLifetimes : SaslDone(p, ok, l))
     /\ WF_vars(ReleaseDone(p))
     /\ WF_vars(LockTimeout(p))
     /\ WF_vars(DisconnectDone(p))

SpecConnectTerminates ==
  InitConcurrentConnect /\ [][NextConcurrentConnect]_vars /\ ConnectFairness

\* C39: every connect() call eventually returns or fails, and no caller
\* waits on the lock forever, in any interleaving of concurrent connect()
\* and disconnect() calls and with any of the steps failing.
C39_ConnectTerminates ==
  \A p \in Procs :
     /\ (pc[p] = "waiting") ~> (pc[p] # "waiting")
     /\ (pc[p] \in ConnectPcs) ~> (pc[p] = "idle")

\* all three calls were connect() calls and have settled, one of them ended
\* by the lock timeout
C39_Witness ==
  /\ calls = 3
  /\ \A p \in Procs : pc[p] = "idle"
  /\ \E p, q \in Procs :
        /\ result[p] = "LockTimeout"
        /\ result[q] \notin {"LockTimeout", "disconnected"}
  /\ connectReturns = 3

============================================================================
